---- MODULE Spec2Model ----
(***************************************************************************)
(* Sparse-data-dist pipelining utilities of torchrec                        *)
(* (torchrec/distributed/train_pipeline/utils.py): SparseDataDistUtil, its  *)
(* window of TrainPipelineContext objects, the intercepting forwards and    *)
(* the PipelinedPostproc wrapper.                                           *)
(*                                                                          *)
(* Python objects live in a heap (u.heap, a sequence of context records;    *)
(* a reference is a position in it).  A dict is a function whose DOMAIN is  *)
(* its key set.  An operation is an operator from a util state to a util    *)
(* state; an exception is recorded in the field err together with the       *)
(* effects the operation had before it raised.                              *)
(***************************************************************************)
EXTENDS Integers, Sequences, FiniteSets, TLC

\* ---------------------------------------------------------------- bounds
MaxAdvance == 3       \* _advance_context calls in one run of Spec
MaxFused == 2         \* pending fused awaitables that allow another start
NumBatches == 3       \* batches of the data source of a staged run
MaxDetach == 1        \* detach() calls on an attached util in one run
MaxSteps == 3         \* steps of an ArgInfo under construction

\* ------------------------------------------------------ the traced model
\* pp_out = pp(batch); m1(pp_out); m2(pp_out); m3(batch)
\* pp is an auxiliary module without parameters; m1, m2, m3 are sharded.
ShardedModules == {"m1", "m2", "m3"}
PostprocFqns == {"pp"}
GraphCallSites ==
    << [target |-> "m1", arg |-> "pp"],
       [target |-> "m2", arg |-> "pp"],
       [target |-> "m3", arg |-> "batch"] >>
Batches == 0 .. (NumBatches - 1)

\* Nodes of a traced graph (torch.fx.Node) as they occur in the arguments of a
\* call site, and arguments that are no nodes.
Placeholder == [op |-> "placeholder"]
\* a placeholder of an exported graph, with its path into the batch
PlaceholderAt(ph_key) == [op |-> "placeholder", ph_key |-> ph_key]
GetAttr(n, name) == [op |-> "getattr", of |-> n, key |-> name]
GetItem(n, index) == [op |-> "getitem", of |-> n, key |-> index]
DictGet(n, key) == [op |-> "get", of |-> n, key |-> key]
CallFunction(n) == [op |-> "call_function", of |-> n]   \* any other function
CallModule(fqn, args) == [op |-> "call_module", target |-> fqn, args |-> args]
None == [none |-> TRUE]
Scalar(v) == [op |-> "const", type |-> "scalar", value |-> v]
ImmutableList(elems) == [op |-> "const", type |-> "list", value |-> elems]
ImmutableDict(elems) == [op |-> "const", type |-> "dict", value |-> elems]

\* the call_module nodes of the sharded modules of the traced model above
TracedGraph ==
    [i \in 1 .. Len(GraphCallSites) |->
        CallModule(GraphCallSites[i].target,
                   << IF GraphCallSites[i].arg = "batch" THEN Placeholder
                      ELSE CallModule(GraphCallSites[i].arg, << Placeholder >>) >>)]
\* auxiliary modules with trainable parameters
TrainableModules == {"dense"}
\* auxiliary modules below the top level of the model (dotted fqn)
NestedModules == {"tower.pp"}
PgOf(name) == IF name = "m3" THEN "pg1" ELSE "pg0"

AllBatches == 0 .. (IF NumBatches > MaxAdvance THEN NumBatches ELSE MaxAdvance + 1)

\* --------------------------------------------------------------- helpers
EmptyDict == << >>
Put(d, k, v) == [x \in (DOMAIN d) \cup {k} |-> IF x = k THEN v ELSE d[x]]
Pop(d, k) == [x \in (DOMAIN d) \ {k} |-> d[x]]
Keys(d) == DOMAIN d
Range(seq) == {seq[i] : i \in 1 .. Len(seq)}
Raise(s, e) == IF s.err = "none" THEN [s EXCEPT !.err = e] ELSE s
Ok(s) == s.err = "none"

\* A value flowing through the model: the batch it comes from and the
\* auxiliary modules applied to it so far.
RawBatch(b) == [batch |-> b, via |-> << >>]
\* The wrapped auxiliary module: its output is derived from its input.
PostprocModule(input) == [input EXCEPT !.via = Append(@, "pp")]
BatchOf(v) == v.batch
\* A batch the input dist of a sharded module cannot distribute (features
\* missing or inconsistent): module.input_dist raises on it and on whatever
\* an auxiliary module derived from it.
MalformedBatch(b) == [batch |-> b, via |-> << >>, malformed |-> TRUE]
IsMalformed(v) == "malformed" \in DOMAIN v

\* ----------------------------------------------------- training contexts
TrainPipelineContext(index, prefetch) ==
    [ index |-> index,
      prefetch |-> prefetch,      \* isinstance(ctx, PrefetchTrainPipelineContext)
      input_dist_splits_requests |-> EmptyDict,
      fused_splits_awaitables |-> << >>,
      input_dist_tensors_requests |-> EmptyDict,
      module_contexts |-> EmptyDict,
      module_input_post_prefetch |-> EmptyDict,
      module_contexts_post_prefetch |-> EmptyDict,
      embedding_a2a_requests |-> EmptyDict,
      postproc_fwd_results |-> EmptyDict ]

OriginalForward == [kind |-> "original"]

\* SparseDataDistUtil.__init__
SparseDataDistUtil(prefetch, postproc, assertions) ==
    [ with_prefetch |-> prefetch,
      pipeline_postproc |-> postproc,
      WITH_CONTEXT_ASSERTIONS |-> assertions,
      initialized |-> FALSE,
      contexts |-> << >>,
      next_index |-> 0,
      exhausting_mode |-> FALSE,
      heap |-> << >>,
      pipelined_modules |-> << >>,
      pipelined_postprocs |-> << >>,
      non_pipelined_sharded_modules |-> << >>,
      graph |-> TracedGraph,            \* tracer.trace(model)
      model_attrs |-> {},               \* dotted names bound on the model itself
      postproc_context |-> EmptyDict,   \* wrapper fqn -> its _context
      postproc_args |-> EmptyDict,      \* wrapper fqn -> its CallArgs
      forward |-> [m \in ShardedModules |-> OriginalForward],
      model_postproc |-> [f \in PostprocFqns |-> "original"],
      original_forwards |-> << >>,
      kjt_dist_forward |-> [m \in ShardedModules |-> "original"],
      original_kjt_dist_forwards |-> << >>,
      hooks |-> 0,                      \* forward hooks registered on the model
      fwd_hook |-> FALSE,               \* self.fwd_hook is not None
      err |-> "none",
      \* history of the run
      calls |-> [b \in AllBatches |-> 0],
      started |-> {}, waited |-> {}, populated |-> {}, prefetched |-> {},
      fwdlog |-> {}, slots |-> {}, served_twice |-> FALSE,
      advanced |-> 0, detached |-> 0 ]

Ctx(s, cid) == s.heap[cid]
SetCtx(s, cid, c) == [s EXCEPT !.heap[cid] = c]
SlotOf(s, cid) ==
    IF \E i \in 1 .. Len(s.contexts) : s.contexts[i] = cid
    THEN (CHOOSE i \in 1 .. Len(s.contexts) : s.contexts[i] = cid) - 1
    ELSE -1

_with_prefetch(s) == s.with_prefetch
_is_reattaching(s) == Len(s.contexts) > 0

\* Variant that keeps asserting while the pipeline drains.
should_assert_context_invariants_draining(s, cid) ==
    /\ s.WITH_CONTEXT_ASSERTIONS
    /\ s.initialized
    /\ Ctx(s, cid).index >= 0

should_assert_context_invariants(s, cid) ==
    /\ s.WITH_CONTEXT_ASSERTIONS
    /\ s.initialized
    /\ ~s.exhausting_mode
    /\ Ctx(s, cid).index >= 0

_pipelined_modules_fqns(s) == Range(s.pipelined_modules)

\* ------------------------------------------------------ PipelinedPostproc
\* ArgInfo.process_steps / CallArgs.build_args_kwargs / PipelinedPostproc.forward
\* are mutually recursive: a postproc step invokes the wrapper, whose own
\* arguments are again built from CallArgs.  A result is [s, val].
RECURSIVE process_steps(_, _, _)
RECURSIVE process_steps_last_only(_, _, _)
RECURSIVE process_collection(_, _, _)
RECURSIVE build_args(_, _, _)
RECURSIVE PipelinedPostproc_forward(_, _, _)

\* Variant that executes the wrapped module on every call, ignoring the cache.
PipelinedPostproc_forward_uncached(s, fqn, input) ==
    LET cid == s.postproc_context[fqn]
        a == build_args(s, s.postproc_args[fqn], input)
        res == PostprocModule(a.val[1])
        s1 == [a.s EXCEPT !.calls[BatchOf(a.val[1])] = @ + 1]
    IN  [s |-> SetCtx(s1, cid, [Ctx(s1, cid) EXCEPT
                                  !.postproc_fwd_results = Put(@, fqn, res)]),
         val |-> res]

\* Variant that caches the result but hands out a recomputed value on a hit.
PipelinedPostproc_forward_recompute(s, fqn, input) ==
    LET r == PipelinedPostproc_forward_uncached(s, fqn, input)
        cid == s.postproc_context[fqn]
    IN  IF fqn \in Keys(Ctx(s, cid).postproc_fwd_results)
        THEN [s |-> s, val |-> r.val]
        ELSE r

PipelinedPostproc_forward(s, fqn, input) ==
    LET cid == s.postproc_context[fqn]
        cached == Ctx(s, cid).postproc_fwd_results
    IN  IF fqn \in Keys(cached)
        THEN [s |-> s, val |-> cached[fqn]]
        ELSE LET a == build_args(s, s.postproc_args[fqn], input)
                 res == PostprocModule(a.val[1])
                 s1 == [a.s EXCEPT !.calls[BatchOf(a.val[1])] = @ + 1]
                 s2 == SetCtx(s1, cid,
                          [Ctx(s1, cid) EXCEPT
                             !.postproc_fwd_results = Put(@, fqn, res)])
             IN [s |-> s2, val |-> res]

\* ListArgInfoStep.process / DictArgInfoStep.process: an element that is an
\* ArgInfo is evaluated on arg, any other element is handed out as it is.
process_collection(s, elems, arg) ==
    IF elems = << >> THEN [s |-> s, val |-> << >>]
    ELSE LET h == IF Head(elems).op = "arginfo"
                  THEN process_steps(s, Head(elems).steps, arg)
                  ELSE [s |-> s, val |-> Head(elems)]
             rest == process_collection(h.s, Tail(elems), arg)
         IN [s |-> rest.s, val |-> << h.val >> \o rest.val]

\* Variant that applies the last step only.
process_steps_last_only(s, steps, arg) ==
    IF steps = << >> THEN [s |-> s, val |-> None]
    ELSE IF Len(steps) >= 2 THEN process_steps_last_only(s, Tail(steps), arg)
    ELSE LET step == Head(steps)
         IN IF step.kind = "noop" THEN [s |-> s, val |-> arg]
            ELSE IF step.kind \in {"get_attr", "get_item"}
            THEN [s |-> s, val |-> [arg EXCEPT !.via = Append(@, step.key)]]
            ELSE IF step.kind = "scalar" THEN [s |-> s, val |-> step.value]
            ELSE IF step.kind \in {"list", "dict"}
            THEN process_collection(s, step.value, arg)
            ELSE PipelinedPostproc_forward(s, step.fqn, arg)

process_steps(s, steps, arg) ==
    IF steps = << >> THEN [s |-> s, val |-> None]
    ELSE LET step == Head(steps)
             r == IF step.kind = "noop" THEN [s |-> s, val |-> arg]
                  ELSE IF step.kind \in {"get_attr", "get_item"}
                  THEN [s |-> s, val |-> [arg EXCEPT !.via = Append(@, step.key)]]
                  ELSE IF step.kind = "scalar" THEN [s |-> s, val |-> step.value]
                  ELSE IF step.kind \in {"list", "dict"}
                  THEN process_collection(s, step.value, arg)
                  ELSE PipelinedPostproc_forward(s, step.fqn, arg)
         IN IF Len(steps) = 1 THEN r
            ELSE process_steps(r.s, Tail(steps), r.val)

build_args(s, args, initial_input) ==
    IF args = << >> THEN [s |-> s, val |-> << >>]
    ELSE LET r == process_steps(s, Head(args), initial_input)
             rest == build_args(r.s, Tail(args), initial_input)
         IN [s |-> rest.s, val |-> <<r.val>> \o rest.val]

\* ------------------------------------------------------- start data dist
create_context(name, batch) == [module |-> name, batch |-> BatchOf(batch)]
input_dist(module_ctx, args) == [kind |-> "splits", ctx |-> module_ctx, args |-> args]
\* FusedKJTListSplitsAwaitable.wait(): one tensors request per splits request
tensors_request(req) == [kind |-> "tensors", ctx |-> req.ctx, args |-> req.args]

\* Iteration order of a dict filled by _start_data_dist: the order of the
\* call sites in the traced graph.
DictOrder(d) ==
    SelectSeq([i \in 1 .. Len(GraphCallSites) |-> GraphCallSites[i].target],
              LAMBDA n : n \in Keys(d))

PgsInOrder(names) ==
    LET F[i \in 0 .. Len(names)] ==
            IF i = 0 THEN << >>
            ELSE IF PgOf(names[i]) \in Range(F[i - 1]) THEN F[i - 1]
                 ELSE Append(F[i - 1], PgOf(names[i]))
    IN F[Len(names)]

\* Variant that fuses the requests of all process groups into one awaitable.
_fuse_input_dist_splits_single(c) ==
    LET all == DictOrder(c.input_dist_splits_requests)
    IN [c EXCEPT !.fused_splits_awaitables =
                    @ \o << [ names |-> all,
                              requests |-> [i \in 1 .. Len(all) |->
                                               c.input_dist_splits_requests[all[i]]],
                              contexts |-> [i \in 1 .. Len(all) |->
                                               c.module_contexts[all[i]]],
                              pg |-> PgOf(all[1]) ] >>]

\* Variant that fuses nothing: no splits awaitable is left for the wait.
_fuse_input_dist_splits_none(c) == c

_fuse_input_dist_splits(c) ==
    LET all == DictOrder(c.input_dist_splits_requests)
        pgs == PgsInOrder(all)
        entry(pg) ==
            LET names == SelectSeq(all, LAMBDA n : PgOf(n) = pg)
            IN [ names |-> names,
                 requests |-> [i \in 1 .. Len(names) |->
                                  c.input_dist_splits_requests[names[i]]],
                 contexts |-> [i \in 1 .. Len(names) |->
                                  c.module_contexts[names[i]]],
                 pg |-> pg ]
    IN [c EXCEPT !.fused_splits_awaitables =
                    @ \o [i \in 1 .. Len(pgs) |-> entry(pgs[i])]]

RECURSIVE start_data_dist_loop(_, _, _, _)
start_data_dist_loop(s, mods, batch, cid) ==
    IF mods = << >> \/ ~Ok(s) THEN s
    ELSE LET name == Head(mods)
             fw == s.forward[name]
         IN IF fw.kind = "original" THEN Raise(s, "AssertionError")
            ELSE LET a == build_args(s, fw.args, batch)
                     module_ctx == create_context(name, batch)
                     c == Ctx(a.s, cid)
                     s1 == SetCtx(a.s, cid,
                              [c EXCEPT
                                 !.module_contexts = Put(@, name, module_ctx),
                                 !.input_dist_splits_requests =
                                     Put(@, name, input_dist(module_ctx, a.val))])
                 IN IF \E i \in DOMAIN a.val : IsMalformed(a.val[i])
                    THEN Raise(SetCtx(a.s, cid,
                                  [c EXCEPT !.module_contexts =
                                                Put(@, name, module_ctx)]),
                               "Exception")
                    ELSE start_data_dist_loop(s1, Tail(mods), batch, cid)

\* the closing _fuse_input_dist_splits(context) of _start_data_dist; s1 is the
\* state after the loop over the pipelined modules
start_data_dist_fuse(s1, cid) ==
    IF ~Ok(s1) THEN s1
    ELSE [SetCtx(s1, cid, _fuse_input_dist_splits(Ctx(s1, cid)))
            EXCEPT !.started = @ \cup {Ctx(s1, cid).index},
                   !.slots = @ \cup {<<"start", Len(s1.contexts) - SlotOf(s1, cid)>>}]

_start_data_dist(s, batch, cid) ==
    start_data_dist_fuse(
        start_data_dist_loop(s, s.pipelined_modules, batch, cid), cid)

\* ------------------------------------------------------ context management
_create_context(s, index) == TrainPipelineContext(index, _with_prefetch(s))

\* self._contexts.append(self._create_context(index))
AppendContext(s, index) ==
    [s EXCEPT !.heap = Append(@, _create_context(s, index)),
              !.contexts = Append(@, Len(s.heap) + 1)]

\* Variant that appends a context without moving _next_index on.
_add_context_same_index(s) == AppendContext(s, s.next_index)

_add_context(s) ==
    [AppendContext(s, s.next_index) EXCEPT !.next_index = @ + 1]

ExpectedContexts(s) == IF _with_prefetch(s) THEN 3 ELSE 2

_assert_contexts_count(s) ==
    IF ~s.WITH_CONTEXT_ASSERTIONS THEN s
    ELSE IF Len(s.contexts) = ExpectedContexts(s) THEN s
         ELSE Raise(s, "AssertionError")

\* Results of the "named context" helpers: [s, cid]; cid = 0 when it raised.
_context_for_model_forward(s) ==
    IF Len(s.contexts) < 1 THEN [s |-> Raise(s, "IndexError"), cid |-> 0]
    ELSE LET cid == s.contexts[1]
             c == Ctx(s, cid)
             target_fqns == _pipelined_modules_fqns(s)
             ok == IF ~should_assert_context_invariants(s, cid) THEN TRUE
                   ELSE IF _with_prefetch(s)
                        THEN /\ c.prefetch
                             /\ Keys(c.module_input_post_prefetch) = target_fqns
                             /\ Keys(c.module_contexts_post_prefetch) = target_fqns
                        ELSE /\ Keys(c.input_dist_tensors_requests) = target_fqns
                             /\ Keys(c.module_contexts) = target_fqns
         IN IF ok THEN [s |-> s, cid |-> cid]
            ELSE [s |-> Raise(s, "AssertionError"), cid |-> 0]

\* Variant that always reads the second slot, as if prefetch were disabled.
_start_dist_context_second(s) ==
    IF Len(s.contexts) < 2 THEN [s |-> Raise(s, "IndexError"), cid |-> 0]
    ELSE [s |-> s, cid |-> s.contexts[2]]

_start_dist_context(s) ==
    LET slot == IF _with_prefetch(s) THEN 3 ELSE 2
    IN  IF Len(s.contexts) < slot THEN [s |-> Raise(s, "IndexError"), cid |-> 0]
        ELSE [s |-> s, cid |-> s.contexts[slot]]

_wait_dist_context(s) ==
    LET r == _start_dist_context(s)
    IN  IF ~Ok(r.s) THEN r
        ELSE IF /\ should_assert_context_invariants(s, r.cid)
                /\ Len(s.pipelined_modules) > 0
                /\ Len(Ctx(s, r.cid).fused_splits_awaitables) = 0
             THEN [s |-> Raise(s, "AssertionError"), cid |-> 0]
             ELSE r

\* Variant that prefetches from the last slot instead of slot [1].
_prefetch_context_last(s) ==
    IF Len(s.contexts) < 3 THEN [s |-> Raise(s, "IndexError"), cid |-> 0]
    ELSE IF ~Ctx(s, s.contexts[3]).prefetch
         THEN [s |-> Raise(s, "AssertionError"), cid |-> 0]
         ELSE [s |-> s, cid |-> s.contexts[3]]

_prefetch_context(s) ==
    IF Len(s.contexts) < 2 THEN [s |-> Raise(s, "IndexError"), cid |-> 0]
    ELSE LET cid == s.contexts[2]
             c == Ctx(s, cid)
             target_fqns == _pipelined_modules_fqns(s)
         IN IF ~c.prefetch THEN [s |-> Raise(s, "AssertionError"), cid |-> 0]
            ELSE IF /\ should_assert_context_invariants(s, cid)
                    /\ ~ (/\ Keys(c.input_dist_tensors_requests) = target_fqns
                          /\ Keys(c.module_contexts) = target_fqns)
                 THEN [s |-> Raise(s, "AssertionError"), cid |-> 0]
                 ELSE [s |-> s, cid |-> cid]

RECURSIVE set_forward_contexts(_, _, _)
set_forward_contexts(s, mods, cid) ==
    IF mods = << >> \/ ~Ok(s) THEN s
    ELSE IF s.forward[Head(mods)].kind = "original"
         THEN Raise(s, "AttributeError")     \* the original forward has no set_context
         ELSE set_forward_contexts(
                  [s EXCEPT !.forward[Head(mods)].context = cid], Tail(mods), cid)

\* Variant that repoints the module forwards only, not the postproc wrappers.
_set_module_context_forwards_only(s, cid) ==
    set_forward_contexts(s, s.pipelined_modules, cid)

_set_module_context(s, cid) ==
    LET s1 == set_forward_contexts(s, s.pipelined_modules, cid)
    IN  IF ~Ok(s1) THEN s1
        ELSE [s1 EXCEPT !.postproc_context =
                 [f \in Keys(s1.postproc_context) |->
                     IF f \in Range(s1.pipelined_postprocs) THEN cid
                     ELSE s1.postproc_context[f]]]

\* Variant that appends a context without removing the oldest one.
_advance_context_no_pop(s) ==
    LET s3 == _add_context(s)
        r == _context_for_model_forward(s3)
    IN  IF ~Ok(r.s) THEN r.s
        ELSE LET s4 == _set_module_context(r.s, r.cid)
             IN IF ~Ok(s4) THEN s4 ELSE [s4 EXCEPT !.advanced = @ + 1]

_advance_context(s) ==
    LET s1 == _assert_contexts_count(s)
    IN  IF ~Ok(s1) THEN s1
        ELSE IF Len(s1.contexts) = 0 THEN Raise(s1, "IndexError")
        ELSE LET s2 == [s1 EXCEPT !.contexts = Tail(@)]
                 s3 == _add_context(s2)
                 r == _context_for_model_forward(s3)
             IN IF ~Ok(r.s) THEN r.s
                ELSE LET s4 == _set_module_context(r.s, r.cid)
                     IN IF ~Ok(s4) THEN s4
                        ELSE [s4 EXCEPT !.advanced = @ + 1]

\* ------------------------------------------------------------- wait phase
RECURSIVE wait_names(_, _, _)
wait_names(c, names, requests) ==
    IF names = << >> \/ requests = << >> THEN c
    ELSE wait_names(
             [c EXCEPT !.input_dist_tensors_requests =
                          Put(@, Head(names), tensors_request(Head(requests)))],
             Tail(names), Tail(requests))

RECURSIVE wait_fused(_, _)
wait_fused(c, fused) ==
    IF fused = << >> THEN c
    ELSE wait_fused(wait_names(c, Head(fused).names, Head(fused).requests),
                    Tail(fused))

\* Variant that leaves the fused awaitables of the context in place.
wait_sparse_data_dist_keep(s) ==
    LET r == _wait_dist_context(s)
    IN  IF ~Ok(r.s) THEN r.s
        ELSE LET c == Ctx(s, r.cid)
                 c1 == wait_fused(c, c.fused_splits_awaitables)
                 c2 == [c1 EXCEPT !.input_dist_splits_requests = EmptyDict]
             IN [SetCtx(s, r.cid, c2) EXCEPT
                    !.waited = @ \cup {c.index},
                    !.slots = @ \cup {<<"wait", Len(s.contexts) - SlotOf(s, r.cid)>>},
                    !.populated = IF Len(c.fused_splits_awaitables) > 0
                                  THEN @ \cup {c.index} ELSE @]

wait_sparse_data_dist(s) ==
    LET r == _wait_dist_context(s)
    IN  IF ~Ok(r.s) THEN r.s
        ELSE LET c == Ctx(s, r.cid)
                 c1 == wait_fused(c, c.fused_splits_awaitables)
                 c2 == [c1 EXCEPT !.input_dist_splits_requests = EmptyDict,
                                  !.fused_splits_awaitables = << >>]
             IN [SetCtx(s, r.cid, c2) EXCEPT
                    !.waited = @ \cup {c.index},
                    !.slots = @ \cup {<<"wait", Len(s.contexts) - SlotOf(s, r.cid)>>},
                    !.populated = IF Len(c.fused_splits_awaitables) > 0
                                  THEN @ \cup {c.index} ELSE @]

\* --------------------------------------------------- intercepting forwards
\* A call of a forward object with _name = name and _context = cid, made by
\* the model forward of the batch `input`.
LogForward(s, name, cid, input, data) ==
    [s EXCEPT
        !.served_twice = @ \/ (\E e \in s.fwdlog :
                                  e.module = name /\ e.ctx = Ctx(s, cid).index),
        !.fwdlog = @ \cup
        {[ module |-> name, input |-> BatchOf(input),
           data |-> {BatchOf(data.args[i]) : i \in 1 .. Len(data.args)},
           mctx |-> data.ctx.batch,
           ctx |-> Ctx(s, cid).index, slot |-> SlotOf(s, cid) ]}]

\* Variant that reads the pending request without removing it.
PipelinedForward_call_keep(s, name, cid, input) ==
    LET c == Ctx(s, cid)
    IN  IF name \notin Keys(c.input_dist_tensors_requests)
        THEN Raise(s, "AssertionError")
        ELSE IF name \notin Keys(c.module_contexts)
        THEN Raise(s, "KeyError")
        ELSE LogForward(
                 SetCtx(s, cid, [c EXCEPT !.module_contexts = Pop(@, name)]),
                 name, cid, input,
                 [args |-> c.input_dist_tensors_requests[name].args,
                  ctx |-> c.module_contexts[name]])

PipelinedForward_call(s, name, cid, input) ==
    LET c == Ctx(s, cid)
    IN  IF name \notin Keys(c.input_dist_tensors_requests)
        THEN Raise(s, "AssertionError")
        ELSE LET request == c.input_dist_tensors_requests[name]
                 c1 == [c EXCEPT !.input_dist_tensors_requests = Pop(@, name)]
                 s1 == SetCtx(s, cid, c1)
             IN IF name \notin Keys(c1.module_contexts)
                THEN Raise(s1, "KeyError")
                ELSE LogForward(
                         SetCtx(s1, cid, [c1 EXCEPT !.module_contexts = Pop(@, name)]),
                         name, cid, input,
                         [args |-> request.args, ctx |-> c1.module_contexts[name]])

PrefetchPipelinedForward_call(s, name, cid, input) ==
    LET c == Ctx(s, cid)
    IN  IF name \notin Keys(c.module_input_post_prefetch)
        THEN Raise(s, "AssertionError")
        ELSE LET data == c.module_input_post_prefetch[name]
                 c1 == [c EXCEPT !.module_input_post_prefetch = Pop(@, name)]
                 s1 == SetCtx(s, cid, c1)
             IN IF name \notin Keys(c1.module_contexts_post_prefetch)
                THEN Raise(s1, "KeyError")
                ELSE LogForward(
                         SetCtx(s1, cid,
                            [c1 EXCEPT !.module_contexts_post_prefetch = Pop(@, name)]),
                         name, cid, input,
                         [args |-> data.args,
                          ctx |-> c1.module_contexts_post_prefetch[name]])

\* _start_embedding_lookup(module, context, ...): issues the embedding lookup
\* and output dist of one module from its waited input dist.
_start_embedding_lookup(s, name, cid) ==
    LET c == Ctx(s, cid)
    IN  IF name \notin Keys(c.module_contexts) THEN Raise(s, "KeyError")
        ELSE IF name \notin Keys(c.input_dist_tensors_requests)
        THEN Raise(s, "KeyError")
        ELSE SetCtx(s, cid,
                 [c EXCEPT !.embedding_a2a_requests =
                     Put(@, name,
                         [args |-> c.input_dist_tensors_requests[name].args,
                          ctx |-> c.module_contexts[name]])])

\* EmbeddingTrainPipelineContext: the context of the semi-sync pipeline
EmbeddingTrainPipelineContext(index) ==
    [embedding_tensors |-> << >>,
     embedding_features |-> << >>,
     detached_embedding_tensors |-> << >>] @@ TrainPipelineContext(index, FALSE)

\* What awaitable.wait() returns: a dict of JaggedTensors (EC), a KeyedTensor
\* (EBC), or something a module of another kind made.
JaggedTensor(values) == [type |-> "JaggedTensor", values |-> values]
KeyedTensor(keys, values) == [type |-> "KeyedTensor", keys |-> keys, values |-> values]
Dict(keys, values) == [type |-> "Dict", keys |-> keys, values |-> values]
\* tensor.detach().requires_grad_()
tensor_detach(tensor) == [detached |-> tensor]

\* Variant that records the feature names of a KeyedTensor one by one.
detach_embeddings_flat(c, embeddings) ==
    IF embeddings.type = "Dict"
    THEN IF \E i \in 1 .. Len(embeddings.values) :
                embeddings.values[i].type # "JaggedTensor"
         THEN [c |-> c, err |-> "AssertionError"]
         ELSE LET tensors == [i \in 1 .. Len(embeddings.values) |->
                                 embeddings.values[i].values]
                  detached_tensors == [i \in 1 .. Len(tensors) |-> tensor_detach(tensors[i])]
              IN [c |-> [c EXCEPT
                           !.embedding_tensors = Append(@, tensors),
                           !.embedding_features = Append(@, embeddings.keys),
                           !.detached_embedding_tensors = Append(@, detached_tensors)],
                  err |-> "none"]
    ELSE IF embeddings.type # "KeyedTensor" THEN [c |-> c, err |-> "AssertionError"]
    ELSE [c |-> [c EXCEPT
                   !.embedding_tensors = Append(@, << embeddings.values >>),
                   !.embedding_features = Append(@, embeddings.keys),
                   !.detached_embedding_tensors =
                       Append(@, << tensor_detach(embeddings.values) >>)],
          err |-> "none"]

\* EmbeddingPipelinedForward.detach_embeddings; result [c, err]
detach_embeddings(c, embeddings) ==
    IF embeddings.type = "Dict"
    THEN IF \E i \in 1 .. Len(embeddings.values) :
                embeddings.values[i].type # "JaggedTensor"
         THEN [c |-> c, err |-> "AssertionError"]
         ELSE LET tensors == [i \in 1 .. Len(embeddings.values) |->
                                 embeddings.values[i].values]
                  detached_tensors == [i \in 1 .. Len(tensors) |-> tensor_detach(tensors[i])]
              IN [c |-> [c EXCEPT
                           !.embedding_tensors = Append(@, tensors),
                           !.embedding_features = Append(@, embeddings.keys),
                           !.detached_embedding_tensors = Append(@, detached_tensors)],
                  err |-> "none"]
    ELSE IF embeddings.type # "KeyedTensor" THEN [c |-> c, err |-> "AssertionError"]
    ELSE [c |-> [c EXCEPT
                   !.embedding_tensors = Append(@, << embeddings.values >>),
                   !.embedding_features = Append(@, << embeddings.keys >>),
                   !.detached_embedding_tensors =
                       Append(@, << tensor_detach(embeddings.values) >>)],
          err |-> "none"]

\* InSyncEmbeddingPipelinedForward.detach_embeddings: doing nothing
InSyncEmbeddingPipelinedForward_detach_embeddings(c, embeddings) ==
    [c |-> c, err |-> "none"]

\* EmbeddingPipelinedForward.__call__ with the detach_embeddings of the class
\* of the forward object (in_sync: InSyncEmbeddingPipelinedForward).  An
\* awaitable of an embedding context carries the embeddings its wait()
\* returns.
embedding_forward(s, name, cid, input, in_sync) ==
    LET c == Ctx(s, cid)
    IN  IF name \notin Keys(c.embedding_a2a_requests)
        THEN Raise(s, "AssertionError")
        ELSE IF name \notin Keys(c.module_contexts)
        THEN Raise(s, "KeyError")
        ELSE LET awaitable == c.embedding_a2a_requests[name]
                 c1 == [c EXCEPT !.module_contexts = Pop(@, name),
                                 !.embedding_a2a_requests = Pop(@, name)]
                 d == IF "embeddings" \notin DOMAIN awaitable
                      THEN [c |-> c1, err |-> "none"]
                      ELSE IF in_sync
                      THEN InSyncEmbeddingPipelinedForward_detach_embeddings(
                               c1, awaitable.embeddings)
                      ELSE detach_embeddings(c1, awaitable.embeddings)
             IN IF d.err # "none" THEN Raise(SetCtx(s, cid, c1), d.err)
                ELSE LogForward(SetCtx(s, cid, d.c), name, cid, input,
                                [args |-> awaitable.args,
                                 ctx |-> c.module_contexts[name]])

EmbeddingPipelinedForward_call(s, name, cid, input) ==
    embedding_forward(s, name, cid, input, FALSE)

InSyncEmbeddingPipelinedForward_call(s, name, cid, input) ==
    embedding_forward(s, name, cid, input, TRUE)

\* the forward object installed on a pipelined module
ForwardCall(s, name, input) ==
    LET fw == s.forward[name]
    IN  IF fw.kind = "PrefetchPipelinedForward"
        THEN PrefetchPipelinedForward_call(s, name, fw.context, input)
        ELSE PipelinedForward_call(s, name, fw.context, input)

\* ---------------------------------------------------------------- prefetch
RECURSIVE prefetch_embeddings_loop(_, _, _, _)
\* result: [s, data] with data the dict data_per_sharded_module
prefetch_embeddings_loop(s, mods, cid, data) ==
    IF mods = << >> \/ ~Ok(s) THEN [s |-> s, data |-> data]
    ELSE LET name == Head(mods)
             c == Ctx(s, cid)
         IN IF s.forward[name].kind # "PrefetchPipelinedForward"
            THEN [s |-> Raise(s, "AssertionError"), data |-> data]
            ELSE IF name \notin Keys(c.input_dist_tensors_requests)
            THEN [s |-> Raise(s, "AssertionError"), data |-> data]
            ELSE LET request == c.input_dist_tensors_requests[name]
                     s1 == SetCtx(s, cid,
                              [c EXCEPT !.input_dist_tensors_requests = Pop(@, name)])
                 IN IF name \notin Keys(c.module_contexts)
                    THEN [s |-> Raise(s1, "KeyError"), data |-> data]
                    ELSE prefetch_embeddings_loop(s1, Tail(mods), cid,
                             Put(data, name, [args |-> request.args]))

\* Variant that hands out None for a module without a waited request.
_prefetch_embeddings_lenient(s, cid) ==
    [s |-> SetCtx(s, cid, [Ctx(s, cid) EXCEPT
                              !.input_dist_tensors_requests = EmptyDict]),
     data |-> [n \in _pipelined_modules_fqns(s) |->
                  IF n \in Keys(Ctx(s, cid).input_dist_tensors_requests)
                  THEN [args |-> Ctx(s, cid).input_dist_tensors_requests[n].args]
                  ELSE None]]

\* Variant that reads the waited requests without removing them.
_prefetch_embeddings_peek(s, cid) ==
    IF _pipelined_modules_fqns(s) \subseteq Keys(Ctx(s, cid).input_dist_tensors_requests)
    THEN [s |-> s,
          data |-> [n \in _pipelined_modules_fqns(s) |->
                       [args |-> Ctx(s, cid).input_dist_tensors_requests[n].args]]]
    ELSE [s |-> Raise(s, "AssertionError"), data |-> EmptyDict]

_prefetch_embeddings(s, cid) ==
    prefetch_embeddings_loop(s, s.pipelined_modules, cid, EmptyDict)

RECURSIVE prefetch_store_loop(_, _, _, _)
prefetch_store_loop(s, mods, cid, data) ==
    IF mods = << >> \/ ~Ok(s) THEN s
    ELSE LET name == Head(mods)
             c == Ctx(s, cid)
             c1 == [c EXCEPT !.module_input_post_prefetch = Put(@, name, data[name])]
         IN IF name \notin Keys(c.module_contexts)
            THEN Raise(SetCtx(s, cid, c1), "KeyError")
            ELSE prefetch_store_loop(
                     SetCtx(s, cid,
                        [c1 EXCEPT
                           !.module_contexts_post_prefetch =
                               Put(@, name, c.module_contexts[name]),
                           !.module_contexts = Pop(@, name)]),
                     Tail(mods), cid, data)

prefetch(s, batch) ==
    LET r0 == _prefetch_context(s)
        r == IF Ok(r0.s) THEN _prefetch_context(r0.s) ELSE r0
    IN  IF ~Ok(r.s) THEN r.s
        ELSE LET p == _prefetch_embeddings(r.s, r.cid)
             IN IF ~Ok(p.s) THEN p.s
                ELSE LET s1 == prefetch_store_loop(p.s, p.s.pipelined_modules,
                                                   r.cid, p.data)
                     IN IF ~Ok(s1) THEN s1
                        ELSE [s1 EXCEPT
                                 !.prefetched = @ \cup {Ctx(s1, r.cid).index},
                                 !.slots = @ \cup {<<"prefetch", SlotOf(s1, r.cid)>>}]

\* Variant that moves the window on, as the fill callback of the start stage does.
load_prefetch_advance(s) == _advance_context(s)

load_prefetch(s) == s

\* -------------------------------------------------------- graph rewriting
\* ArgInfoStepFactory
noop == [kind |-> "noop"]
get_attr(name) == [kind |-> "get_attr", key |-> name]
get_item(index) == [kind |-> "get_item", key |-> index]
postproc(fqn) == [kind |-> "postproc", fqn |-> fqn]
from_scalar(value) == [kind |-> "scalar", value |-> value]
from_list(value) == [kind |-> "list", value |-> value]
from_dict(value) == [kind |-> "dict", value |-> value]
\* ArgInfo.add_step: steps.insert(0, step)
add_step(arg_info, step) == << step >> \o arg_info
\* ArgInfo.append_step: steps.append(step)
append_step(arg_info, step) == Append(arg_info, step)
\* an ArgInfo held as an element of a list or dict step
NestedArgInfo(steps) == [op |-> "arginfo", steps |-> steps]

\* NodeArgsHelper.  The helper's model and set of pipelined postprocs are
\* fields of s; a walk returns [s, found, arg_info] with found = FALSE where
\* the code returns None.
NotFound(s) == [s |-> s, found |-> FALSE, arg_info |-> << >>]
Found(s, arg_info) == [s |-> s, found |-> TRUE, arg_info |-> arg_info]

\* A Python str is the sequence of its characters, a Python int its value.
Str(chars) == [str |-> chars]
PyInt(n) == [int |-> n]
\* str.replace(old, new) for single characters
replace(chars, old, new) ==
    [i \in 1 .. Len(chars) |-> IF chars[i] = old THEN new ELSE chars[i]]
\* str.split(sep)
RECURSIVE split(_, _)
split(chars, sep) ==
    IF \A i \in 1 .. Len(chars) : chars[i] # sep THEN << chars >>
    ELSE LET i == CHOOSE i \in 1 .. Len(chars) :
                      chars[i] = sep /\ \A j \in 1 .. (i - 1) : chars[j] # sep
         IN << SubSeq(chars, 1, i - 1) >>
                \o split(SubSeq(chars, i + 1, Len(chars)), sep)
DigitValue ==
    [c \in {"0", "1", "2", "3", "4", "5", "6", "7", "8", "9"} |->
        CHOOSE n \in 0 .. 9 :
            << "0", "1", "2", "3", "4", "5", "6", "7", "8", "9" >>[n + 1] = c]
\* int(k_) of a string of decimal digits; ValueError leaves the string
RECURSIVE int_value(_)
int_value(chars) ==
    IF chars = << >> THEN 0
    ELSE 10 * int_value(SubSeq(chars, 1, Len(chars) - 1))
            + DigitValue[chars[Len(chars)]]
try_int(chars) ==
    IF chars # << >> /\ \A i \in 1 .. Len(chars) : chars[i] \in DOMAIN DigitValue
    THEN PyInt(int_value(chars))
    ELSE Str(chars)

\* for key in ph_keys: append a get_item step for "b]", a get_attr step
\* for anything else
RECURSIVE _handle_placeholder_keys(_, _)
_handle_placeholder_keys(ph_keys, arg_info) ==
    IF ph_keys = << >> THEN arg_info
    ELSE LET key == Head(ph_keys)
         IN _handle_placeholder_keys(
                Tail(ph_keys),
                IF \E i \in 1 .. Len(key) : key[i] = "]"
                THEN append_step(arg_info,
                                 get_item(try_int(SubSeq(key, 1, Len(key) - 1))))
                ELSE append_step(arg_info, get_attr(Str(key))))

_handle_placeholder(s, child_node, arg_info) ==
    IF "ph_key" \in DOMAIN child_node
    THEN Found(s, _handle_placeholder_keys(
                      split(replace(child_node.ph_key.str, "[", "."), "."),
                      arg_info))
    ELSE Found(s, add_step(arg_info, noop))

RECURSIVE _get_node_args_helper_inner(_, _, _, _, _)
RECURSIVE _handle_collection(_, _, _, _)
RECURSIVE _get_node_args_helper(_, _, _, _)

\* for each element v of a list or dict constant: _handle_collection_element
_handle_collection_element(s, arg, for_postproc_module, context) ==
    IF arg.op = "const" THEN [s |-> s, val |-> arg]
    ELSE LET r == _get_node_args_helper_inner(s, arg, << >>,
                                              for_postproc_module, context)
         IN [s |-> r.s,
             val |-> IF r.found THEN NestedArgInfo(r.arg_info) ELSE Scalar(None)]

_handle_collection(s, elems, for_postproc_module, context) ==
    IF elems = << >> THEN [s |-> s, val |-> << >>]
    ELSE LET h == _handle_collection_element(s, Head(elems),
                                             for_postproc_module, context)
             rest == _handle_collection(h.s, Tail(elems),
                                        for_postproc_module, context)
         IN [s |-> rest.s, val |-> << h.val >> \o rest.val]

\* Variant that embeds every constant, a list or dict included, as a scalar.
_handle_constant_scalar(s, arg, arg_info, for_postproc_module, context) ==
    IF ~s.pipeline_postproc THEN NotFound(s)
    ELSE Found(s, add_step(arg_info, from_scalar(arg.value)))

_handle_constant(s, arg, arg_info, for_postproc_module, context) ==
    IF ~s.pipeline_postproc THEN NotFound(s)
    ELSE IF arg.type = "dict"
    THEN LET c == _handle_collection(s, arg.value, for_postproc_module, context)
         IN Found(c.s, add_step(arg_info, from_dict(c.val)))
    ELSE IF arg.type = "list"
    THEN LET c == _handle_collection(s, arg.value, for_postproc_module, context)
         IN Found(c.s, add_step(arg_info, from_list(c.val)))
    ELSE Found(s, add_step(arg_info, from_scalar(arg.value)))

add_pipelined_postproc(s, fqn) ==
    [s EXCEPT !.pipelined_postprocs = IF fqn \in Range(@) THEN @ ELSE Append(@, fqn)]

\* _handle_module once the arguments of the auxiliary module are walked:
\* r is the result of get_node_args(child_node, for_postproc_module=True)
swap_postproc_module(r, child_node, arg_info, context) ==
    IF r.num_found = Len(child_node.args)
    THEN Found(add_pipelined_postproc(
                   [r.s EXCEPT
                      !.model_postproc[child_node.target] = "wrapped",
                      !.postproc_context = Put(@, child_node.target, context),
                      !.postproc_args = Put(@, child_node.target, r.arg_info_list)],
                   child_node.target),
               add_step(arg_info, postproc(child_node.target)))
    ELSE NotFound(r.s)

_handle_module(s, child_node, arg_info, context) ==
    IF ~s.pipeline_postproc THEN NotFound(s)
    ELSE IF child_node.target \notin Keys(s.model_postproc) THEN NotFound(s)
    ELSE IF s.model_postproc[child_node.target] = "wrapped"
    THEN Found(add_pipelined_postproc(s, child_node.target),
               add_step(arg_info, postproc(child_node.target)))
    ELSE IF child_node.target \in TrainableModules THEN NotFound(s)
    ELSE IF Len(child_node.args) = 0 THEN NotFound(s)
    ELSE swap_postproc_module(
             _get_node_args_helper(s, child_node.args, TRUE, context),
             child_node, arg_info, context)

_get_node_args_helper_inner(s, arg, arg_info, for_postproc_module, context) ==
    IF arg.op = "const"
    THEN _handle_constant(s, arg, arg_info, for_postproc_module, context)
    ELSE IF arg.op = "placeholder" THEN _handle_placeholder(s, arg, arg_info)
    ELSE IF arg.op = "call_module" THEN _handle_module(s, arg, arg_info, context)
    ELSE IF arg.op = "getattr"
    THEN _get_node_args_helper_inner(s, arg.of, add_step(arg_info, get_attr(arg.key)),
                                     for_postproc_module, context)
    ELSE IF arg.op \in {"getitem", "get"}
    THEN _get_node_args_helper_inner(s, arg.of, add_step(arg_info, get_item(arg.key)),
                                     for_postproc_module, context)
    ELSE NotFound(s)

\* result: [s, arg_info_list, num_found]
_get_node_args_helper(s, arguments, for_postproc_module, context) ==
    IF arguments = << >> THEN [s |-> s, arg_info_list |-> << >>, num_found |-> 0]
    ELSE LET r == IF ~for_postproc_module /\ Head(arguments) = Scalar(None)
                  THEN Found(s, << from_scalar(None) >>)
                  ELSE _get_node_args_helper_inner(s, Head(arguments), << >>,
                                                   for_postproc_module, context)
             rest == _get_node_args_helper(r.s, Tail(arguments),
                                           for_postproc_module, context)
         IN [s |-> rest.s,
             arg_info_list |-> IF r.found THEN << r.arg_info >> \o rest.arg_info_list
                               ELSE rest.arg_info_list,
             num_found |-> rest.num_found + (IF r.found THEN 1 ELSE 0)]

get_node_args(s, node, for_postproc_module, context) ==
    _get_node_args_helper(s, node.args, for_postproc_module, context)

PipelinedForwardType(s) ==
    IF _with_prefetch(s) THEN "PrefetchPipelinedForward" ELSE "PipelinedForward"

\* Variant that pipelines a module as soon as one argument is resolved.
rewrite_node_partial(r, node, context) ==
    IF r.num_found > 0
    THEN [r.s EXCEPT
            !.original_forwards = Append(@, r.s.forward[node.target]),
            !.forward[node.target] =
                [ kind |-> PipelinedForwardType(r.s),
                  name |-> node.target,
                  args |-> r.arg_info_list,
                  context |-> context ],
            !.pipelined_modules = Append(@, node.target)]
    ELSE [r.s EXCEPT !.non_pipelined_sharded_modules = Append(@, node.target)]

\* the body of the loop over graph.nodes for one call_module node of a sharded
\* module with at least one argument; r is the result of get_node_args(node)
rewrite_node(r, node, context) ==
    IF r.num_found = Len(node.args)
    THEN [r.s EXCEPT
            !.original_forwards = Append(@, r.s.forward[node.target]),
            !.forward[node.target] =
                [ kind |-> PipelinedForwardType(r.s),
                  name |-> node.target,
                  args |-> r.arg_info_list,
                  context |-> context ],
            !.pipelined_modules = Append(@, node.target)]
    ELSE [r.s EXCEPT !.non_pipelined_sharded_modules = Append(@, node.target)]

RECURSIVE rewrite_loop(_, _, _)
rewrite_loop(s, nodes, context) ==
    IF nodes = << >> THEN s
    ELSE IF Len(Head(nodes).args) = 0
    THEN rewrite_loop(s, Tail(nodes), context)
    ELSE rewrite_loop(
             rewrite_node(get_node_args(s, Head(nodes), FALSE, context),
                          Head(nodes), context),
             Tail(nodes), context)

_rewrite_model(s, context) ==
    rewrite_loop([s EXCEPT !.pipelined_modules = << >>,
                           !.original_forwards = << >>,
                           !.pipelined_postprocs = << >>,
                           !.non_pipelined_sharded_modules = << >>],
                 s.graph, context)

_override_input_dist_forwards(s) ==
    [s EXCEPT
       !.original_kjt_dist_forwards =
           [i \in 1 .. Len(s.pipelined_modules) |->
               s.kjt_dist_forward[s.pipelined_modules[i]]],
       !.kjt_dist_forward =
           [m \in ShardedModules |->
               IF m \in Range(s.pipelined_modules) THEN "KJTAllToAllForward" ELSE @[m]]]

_pipeline_detach_model(s) ==
    LET n == IF Len(s.pipelined_modules) < Len(s.original_forwards)
             THEN Len(s.pipelined_modules) ELSE Len(s.original_forwards)
        restored(m) == {i \in 1 .. n : s.pipelined_modules[i] = m}
        s1 == [s EXCEPT !.forward =
                  [m \in ShardedModules |->
                      IF restored(m) # {}
                      THEN s.original_forwards[CHOOSE i \in restored(m) :
                                                  \A j \in restored(m) : j <= i]
                      ELSE @[m]]]
    IN  IF Len(s.pipelined_modules) # Len(s.original_kjt_dist_forwards)
        THEN Raise(s1, "AssertionError")
        ELSE [s1 EXCEPT
                !.kjt_dist_forward =
                    [m \in ShardedModules |->
                        IF \E i \in 1 .. Len(s.pipelined_modules) :
                               s.pipelined_modules[i] = m
                        THEN s.original_kjt_dist_forwards[
                                 CHOOSE i \in 1 .. Len(s.pipelined_modules) :
                                     s.pipelined_modules[i] = m]
                        ELSE @[m]],
                \* setattr(model, postproc_mod.fqn, postproc_mod.postproc_module):
                \* a dotted fqn is bound as a name on the model itself, the
                \* module tree below the top level is left as it is
                !.model_postproc =
                    [f \in Keys(@) |->
                        IF f \in Range(s.pipelined_postprocs) /\ f \notin NestedModules
                        THEN "original" ELSE @[f]],
                !.model_attrs = @ \cup (Range(s.pipelined_postprocs) \cap NestedModules)]

\* ------------------------------------------------------ attach and detach
\* Variant of the hook that advances without waiting on the start slot.
forward_hook_no_wait(s) == _advance_context(s)

\* the post-forward hook registered by _initialize_or_reattach
forward_hook(s) ==
    LET s1 == wait_sparse_data_dist(s)
    IN  IF ~Ok(s1) THEN s1 ELSE _advance_context(s1)

\* _initialize_or_reattach, step 0: on initialization the priming contexts
\* and the first real context are added; on re-attach the window is kept.
attach_contexts(s) ==
    IF _is_reattaching(s) THEN s
    ELSE _add_context(
             AppendContext(IF _with_prefetch(s) THEN AppendContext(s, -2) ELSE s, -1))

context_for_rewrite(s0, reattaching) ==
    IF reattaching THEN s0.contexts[1] ELSE s0.contexts[Len(s0.contexts)]

\* step 2: override the input dist forwards and register the forward hook
attach_hook(s3) ==
    IF ~Ok(s3) THEN s3
    ELSE [_override_input_dist_forwards(s3) EXCEPT
             !.hooks = @ + 1,
             !.fwd_hook = TRUE,
             !.initialized = TRUE]

\* "setting the stage for the first batch": _start_data_dist on the start slot
attach_start(s2, batch) ==
    attach_hook(LET sd == _start_dist_context(s2)
                IN  IF Ok(sd.s) THEN _start_data_dist(sd.s, batch, sd.cid)
                    ELSE sd.s)

\* step 1: rewrite the model; s1 is the state after _assert_contexts_count
attach_rewrite(s1, reattaching, batch) ==
    IF ~Ok(s1) THEN s1
    ELSE attach_start(
             _rewrite_model(s1, context_for_rewrite(s1, reattaching)), batch)

\* Variant that primes a new window on every attach, re-attach included.
_initialize_or_reattach_fresh(s, batch) ==
    attach_rewrite(
        _add_context(
            AppendContext(IF _with_prefetch(s) THEN AppendContext(s, -2) ELSE s, -1)),
        FALSE, batch)

_initialize_or_reattach(s, batch) ==
    attach_rewrite(_assert_contexts_count(attach_contexts(s)),
                   _is_reattaching(s), batch)

\* Variant of detach that also drops the in-flight contexts.
detach_flush(s) ==
    IF s.initialized
    THEN [_pipeline_detach_model([s EXCEPT !.hooks = @ - 1]) EXCEPT
             !.initialized = FALSE, !.detached = @ + 1, !.contexts = << >>]
    ELSE [s EXCEPT !.initialized = FALSE]

\* Variant of detach that leaves the forward hook registered.
detach_keep_hook(s) ==
    IF s.initialized
    THEN IF ~s.fwd_hook THEN Raise(s, "AssertionError")
         ELSE LET s1 == _pipeline_detach_model(s)
              IN IF ~Ok(s1) THEN s1
                 ELSE [s1 EXCEPT !.initialized = FALSE, !.detached = @ + 1]
    ELSE [s EXCEPT !.initialized = FALSE]

detach(s) ==
    IF s.initialized
    THEN IF ~s.fwd_hook THEN Raise(s, "AssertionError")
         ELSE LET s1 == _pipeline_detach_model([s EXCEPT !.hooks = @ - 1])
              IN IF ~Ok(s1) THEN s1
                 ELSE [s1 EXCEPT !.initialized = FALSE, !.detached = @ + 1]
    ELSE [s EXCEPT !.initialized = FALSE]

\* with use_context_for_postprocs(postprocs, ctx): _start_data_dist(...)
\* The contexts are restored by the code after the yield, which does not run
\* when the body raises.
set_postproc_contexts(s, cid) ==
    [s EXCEPT !.postproc_context =
        [f \in Keys(@) |->
            IF f \in Range(s.pipelined_postprocs) THEN cid ELSE @[f]]]

\* Variant that leaves the wrappers on the context of the started batch.
restore_postproc_contexts_keep(s2, pipelined_postprocs, original_contexts) == s2

restore_postproc_contexts(s2, pipelined_postprocs, original_contexts) ==
    IF ~Ok(s2) THEN s2
    ELSE [s2 EXCEPT !.postproc_context =
             [f \in Keys(@) |->
                 IF f \in Range(pipelined_postprocs)
                 THEN original_contexts[f] ELSE @[f]]]

use_context_for_postprocs_start(s, batch, cid) ==
    restore_postproc_contexts(
        _start_data_dist(set_postproc_contexts(s, cid), batch, cid),
        s.pipelined_postprocs, s.postproc_context)

\* start_sparse_data_dist after its "if not self.initialized" branch
start_on_start_slot(s1, batch) ==
    IF ~Ok(s1) THEN s1
    ELSE LET r == _start_dist_context(s1)
         IN IF ~Ok(r.s) THEN r.s
            ELSE use_context_for_postprocs_start(r.s, batch, r.cid)

start_sparse_data_dist(s, batch) ==
    start_on_start_slot(
        IF ~s.initialized THEN _initialize_or_reattach(s, batch) ELSE s, batch)

\* Variant of the fill callback that waits without advancing the window.
wait_sdd_fill_callback_no_advance(s) == wait_sparse_data_dist(s)

wait_sdd_fill_callback(s) ==
    LET s1 == wait_sparse_data_dist(s)
    IN  IF ~Ok(s1) THEN s1 ELSE _advance_context(s1)

data_exhausted_callback(s) == [s EXCEPT !.exhausting_mode = TRUE]

\* ------------------------------------------------------------ model forward
\* model(batch): the traced graph is executed; a pipelined sharded module
\* runs its intercepting forward, any other module its original forward.
\* The forward hooks run after a forward that did not raise.
RECURSIVE call_sharded_modules(_, _, _)
call_sharded_modules(s, nodes, batch) ==
    IF nodes = << >> \/ ~Ok(s) THEN s
    ELSE LET name == Head(nodes).target
         IN call_sharded_modules(
                IF s.forward[name].kind = "original" THEN s
                ELSE ForwardCall(s, name, batch),
                Tail(nodes), batch)

RECURSIVE run_forward_hooks(_, _)
run_forward_hooks(s, n) ==
    IF n = 0 \/ ~Ok(s) THEN s
    ELSE run_forward_hooks(forward_hook(s), n - 1)

model_forward(s, batch) ==
    LET pp == IF s.model_postproc["pp"] = "wrapped"
              THEN PipelinedPostproc_forward(s, "pp", batch)
              ELSE [s |-> s, val |-> PostprocModule(batch)]
        s1 == call_sharded_modules(pp.s, GraphCallSites, batch)
    IN  run_forward_hooks(s1, s1.hooks)


\* ------------------------------------------------------------------ state
VARIABLES u,          \* the SparseDataDistUtil, its contexts and the model
          ref,        \* staged runs: the same run of a util that is never detached
          drv,        \* staged runs: position of the StagedTrainPipeline
          dlt         \* the DataLoadingThread, its consumers and their positions

vars == << u, ref, drv, dlt >>

\* A context no reference leads to any more (it left the window and no forward
\* or wrapper holds it) is reclaimed.
Reachable(s) ==
    Range(s.contexts)
      \cup {s.forward[m].context : m \in {x \in ShardedModules : s.forward[x].kind # "original"}}
      \cup {s.postproc_context[f] : f \in Keys(s.postproc_context)}
Collect(s) ==
    [s EXCEPT !.heap = [i \in 1 .. Len(s.heap) |->
                          IF i \in Reachable(s) THEN s.heap[i]
                          ELSE TrainPipelineContext(s.heap[i].index, s.heap[i].prefetch)]]

Begin(s) == [s EXCEPT !.err = "none"]
\* An exception propagates to the caller of the pipeline and ends the run: no
\* operation follows one that raised.
Running(s) == s.err = "none"
\* The data source hands out batch k for the k-th context: the batch fed to
\* start_sparse_data_dist is the one that belongs to the start slot.
StartBatch(s) ==
    IF Len(s.contexts) = 0 THEN s.next_index
    ELSE Ctx(s, s.contexts[Len(s.contexts)]).index
\* ... and the batch fed to the model is the one that belongs to the front
\* of the window (to the start slot while the front is a priming context).
ForwardBatch(s) ==
    IF Len(s.contexts) = 0 THEN 0
    ELSE IF Ctx(s, s.contexts[1]).index >= 0 THEN Ctx(s, s.contexts[1]).index
    ELSE IF Ctx(s, s.contexts[2]).index >= 0 THEN Ctx(s, s.contexts[2]).index
    ELSE Ctx(s, s.contexts[Len(s.contexts)]).index
CanAdvance(s) == s.next_index <= MaxAdvance
CanStart(s) ==
    \/ Len(s.contexts) = 0
    \/ /\ Ok(_start_dist_context(s).s)
       /\ Len(Ctx(s, _start_dist_context(s).cid).fused_splits_awaitables) <= MaxFused

Idle == [pc |-> "idle"]

Init ==
    /\ \E p \in BOOLEAN, q \in BOOLEAN, a \in BOOLEAN :
           u = SparseDataDistUtil(p, q, a)
    /\ ref = Idle
    /\ drv = Idle
    /\ dlt = Idle

StartSparseDataDist ==
    \E b \in {StartBatch(u)} :
        /\ Running(u)
        /\ CanStart(u)
        /\ u' = Collect(start_sparse_data_dist(Begin(u), RawBatch(b)))
        /\ UNCHANGED << ref, drv, dlt >>

WaitSparseDataDist ==
    /\ Running(u)
    /\ u' = Collect(wait_sparse_data_dist(Begin(u)))
    /\ UNCHANGED << ref, drv, dlt >>

WaitSddFillCallback ==
    /\ Running(u)
    /\ CanAdvance(u)
    /\ u' = Collect(wait_sdd_fill_callback(Begin(u)))
    /\ UNCHANGED << ref, drv, dlt >>

Prefetch ==
    /\ Running(u)
    /\ u' = Collect(prefetch(Begin(u), RawBatch(0)))
    /\ UNCHANGED << ref, drv, dlt >>

LoadPrefetch ==
    /\ Running(u)
    /\ Running(u)
    /\ u' = Collect(load_prefetch(Begin(u)))
    /\ UNCHANGED << ref, drv, dlt >>

ModelForward ==
    \E b \in {ForwardBatch(u)} :
        /\ Running(u)
        /\ CanAdvance(u)
        /\ u' = Collect(model_forward(Begin(u), RawBatch(b)))
        /\ UNCHANGED << ref, drv, dlt >>

Detach ==
    /\ Running(u)
    /\ ~u.initialized \/ u.detached < MaxDetach
    /\ u' = Collect(detach(Begin(u)))
    /\ UNCHANGED << ref, drv, dlt >>

DataExhaustedCallback ==
    /\ Running(u)
    /\ u' = Collect(data_exhausted_callback(Begin(u)))
    /\ UNCHANGED << ref, drv, dlt >>

Next ==
    \/ StartSparseDataDist
    \/ WaitSparseDataDist
    \/ WaitSddFillCallback
    \/ Prefetch
    \/ LoadPrefetch
    \/ ModelForward
    \/ Detach
    \/ DataExhaustedCallback

Spec == Init /\ [][Next]_vars

\* The data source may also hand out a batch the input dist rejects.
StartMalformed ==
    \E b \in {StartBatch(u)} :
        /\ Running(u)
        /\ CanStart(u)
        /\ u' = Collect(start_sparse_data_dist(Begin(u), MalformedBatch(b)))
        /\ UNCHANGED << ref, drv, dlt >>

NextMalformed == Next \/ StartMalformed

SpecMalformed == Init /\ [][NextMalformed]_vars

\* ------------------------------------------------------------- staged runs
\* StagedTrainPipeline with the stages of the SparseDataDistUtil docstring
\* (start_sparse_data_dist with fill callback wait_sdd_fill_callback, and with
\* a prefetch stream prefetch with fill callback load_prefetch), fed NumBatches
\* batches in order.  The pipeline is filled first; then every iteration
\* starts the next batch, prefetches the one before it and runs the model on
\* the oldest batch in flight.  detach() may be called between two
\* iterations; the next start_sparse_data_dist re-attaches.  The same
\* operations, without the detach, are applied to ref.
Both(F(_)) ==
    /\ u' = Collect(F(Begin(u)))
    /\ ref' = Collect(F(Begin(ref)))
    /\ UNCHANGED dlt

InitStaged ==
    /\ \E p \in BOOLEAN, q \in BOOLEAN, a \in BOOLEAN :
           /\ u = SparseDataDistUtil(p, q, a)
           /\ ref = SparseDataDistUtil(p, q, a)
    /\ drv = [pc |-> "start", started |-> 0, prefetched |-> 0, forwarded |-> 0,
              did_start |-> FALSE, did_prefetch |-> FALSE]
    /\ dlt = Idle

FillStart ==
    /\ drv.pc = "start"
    /\ Both(LAMBDA s : start_sparse_data_dist(s, RawBatch(drv.started)))
    /\ drv' = [drv EXCEPT !.pc = "fillcb", !.started = @ + 1]

FillCallback ==
    /\ drv.pc = "fillcb"
    /\ Both(wait_sdd_fill_callback)
    /\ drv' = [drv EXCEPT !.pc = IF u.with_prefetch /\ drv.prefetched = 0
                                  THEN "prefetch" ELSE "run"]

FillPrefetch ==
    /\ drv.pc = "prefetch"
    /\ Both(LAMBDA s : prefetch(s, RawBatch(drv.prefetched)))
    /\ drv' = [drv EXCEPT !.pc = "load_prefetch", !.prefetched = @ + 1]

FillLoadPrefetch ==
    /\ drv.pc = "load_prefetch"
    /\ Both(load_prefetch)
    /\ drv' = [drv EXCEPT !.pc = "start"]

RunStart ==
    /\ drv.pc = "run" /\ ~drv.did_start /\ drv.started < NumBatches
    /\ Both(LAMBDA s : start_sparse_data_dist(s, RawBatch(drv.started)))
    /\ drv' = [drv EXCEPT !.did_start = TRUE, !.started = @ + 1]

RunExhausted ==
    /\ drv.pc = "run" /\ ~drv.did_start /\ drv.started = NumBatches
    /\ ~u.exhausting_mode
    /\ Both(data_exhausted_callback)
    /\ UNCHANGED drv

RunPrefetch ==
    /\ drv.pc = "run" /\ u.with_prefetch /\ ~drv.did_prefetch
    /\ u.initialized
    /\ drv.prefetched < drv.started /\ drv.prefetched = drv.forwarded + 1
    /\ Both(LAMBDA s : prefetch(s, RawBatch(drv.prefetched)))
    /\ drv' = [drv EXCEPT !.did_prefetch = TRUE, !.prefetched = @ + 1]

RunForward ==
    /\ drv.pc = "run"
    /\ drv.did_start \/ (drv.started = NumBatches /\ u.exhausting_mode)
    /\ \/ ~u.with_prefetch
       \/ drv.did_prefetch
       \/ drv.forwarded + 1 >= NumBatches
    /\ Both(LAMBDA s : model_forward(s, RawBatch(drv.forwarded)))
    /\ drv' = [drv EXCEPT !.forwarded = @ + 1,
                          !.did_start = FALSE, !.did_prefetch = FALSE,
                          !.pc = IF drv.forwarded + 1 = NumBatches
                                 THEN "done" ELSE "run"]

RunDetach ==
    /\ drv.pc = "run" /\ ~drv.did_start /\ ~drv.did_prefetch
    /\ drv.started < NumBatches
    /\ u.initialized /\ u.detached < MaxDetach
    /\ u' = Collect(detach(Begin(u)))
    /\ UNCHANGED << ref, drv, dlt >>

NextStaged ==
    \/ FillStart
    \/ FillCallback
    \/ FillPrefetch
    \/ FillLoadPrefetch
    \/ RunStart
    \/ RunExhausted
    \/ RunPrefetch
    \/ RunForward
    \/ RunDetach

SpecStaged == InitStaged /\ [][NextStaged]_vars

\* ------------------------------------------------- rewriting traced graphs
\* _rewrite_model applied to the traced graphs of a family of models: two
\* sharded modules m1 and m2, each called once, with arguments drawn from the
\* node kinds the walk distinguishes; auxiliary modules pp (top level),
\* tower.pp (below the top level) and dense (trainable parameters).
AuxiliaryModules == {"pp", "tower.pp", "dense"}
Leaves ==
    {Placeholder, Scalar([py |-> 7]), Scalar(None), CallFunction(Placeholder)}
Fields ==
    Leaves \cup {GetAttr(Placeholder, "f"),
                 GetItem(GetAttr(Placeholder, "f"), 0),
                 DictGet(Placeholder, "k"),
                 GetAttr(CallFunction(Placeholder), "f")}
ModuleCalls(E) ==
    {CallModule(f, << e >>) : f \in AuxiliaryModules, e \in E}
      \cup {CallModule(f, << >>) : f \in AuxiliaryModules}
Collections(E) ==
    {ImmutableList(<< e >>) : e \in E} \cup {ImmutableDict(<< e >>) : e \in E}
      \cup {ImmutableList(<< Scalar([py |-> 7]), e >>) : e \in E}
Level1 == Fields \cup ModuleCalls(Fields) \cup Collections(Fields)
Level2 ==
    Level1 \cup ModuleCalls(ModuleCalls({Placeholder, CallFunction(Placeholder)}))
           \cup {GetAttr(e, "f") : e \in ModuleCalls({Placeholder})}
           \cup Collections(ModuleCalls({Placeholder, CallFunction(Placeholder)}))
ArgLists ==
    {<< >>} \cup {<< e >> : e \in Level2}
            \cup {<< d, e >> : d \in Fields, e \in ModuleCalls({Placeholder}) \cup Leaves}
OtherArgLists ==
    {<< >>, << Placeholder >>, << Scalar(None) >>,
     << CallModule("pp", << Placeholder >>) >>,
     << CallModule("tower.pp", << GetAttr(Placeholder, "f") >>) >>,
     << CallModule("dense", << Placeholder >>) >>}
Graphs ==
    {<< CallModule("m1", a), CallModule("m2", b) >> : a \in ArgLists, b \in OtherArgLists}
      \cup {<< CallModule("m2", b), CallModule("m1", a) >> :
               a \in ArgLists, b \in OtherArgLists}

InitRewrite ==
    /\ \E p \in BOOLEAN, q \in BOOLEAN, g \in Graphs :
           u = [_add_context(SparseDataDistUtil(p, q, FALSE)) EXCEPT
                   !.graph = g,
                   !.model_postproc = [f \in AuxiliaryModules |-> "original"]]
    /\ ref = Idle
    /\ drv = [pc |-> "traced"]
    /\ dlt = Idle

\* _initialize_or_reattach without the data dist of the first batch: the
\* model is rewritten, the input dists are overridden, the hook is registered
RewriteModel ==
    /\ drv.pc = "traced"
    /\ u' = attach_hook(_rewrite_model(u, u.contexts[1]))
    /\ drv' = [pc |-> "attached"]
    /\ UNCHANGED << ref, dlt >>

DetachModel ==
    /\ drv.pc = "attached"
    /\ u' = detach(u)
    /\ drv' = [pc |-> "detached"]
    /\ UNCHANGED << ref, dlt >>

NextRewrite == RewriteModel \/ DetachModel

SpecRewrite == InitRewrite /\ [][NextRewrite]_vars

\* -------------------------------------------------------- DataLoadingThread
\* The producer thread (run), the threads calling get_next_batch and a thread
\* calling stop(), interleaved statement by statement.  The data iterator
\* yields the batches 0 .. NumBatches - 1; NoBatch is None.
NoBatch == [none |-> TRUE]
YieldedBatch(i) == [batch |-> i]
\* threads that call get_next_batch: the training loop, and a second caller
Consumers == {1, 2}

DataLoadingThread(nconsumers, may_stop) ==
    [ stop |-> FALSE,
      buffered |-> NoBatch,
      buffer_empty_event |-> TRUE,
      buffer_filled_event |-> FALSE,
      dataloader_iter |-> 0,            \* the next batch the iterator yields
      run |-> [pc |-> "while", batch |-> NoBatch],
      callers |-> [c \in 1 .. nconsumers |->
                     [pc |-> "wait", batch |-> NoBatch, got |-> << >>,
                      early_none |-> FALSE]],
      stopper |-> IF may_stop THEN "stop" ELSE "absent",
      \* history: the producer wrote over a batch nobody had taken
      overwritten |-> FALSE ]

\* Variant of run that does not wait for the buffer to be empty.
DataLoadingThread_run_no_wait(d) ==
    LET pc == d.run.pc
    IN  IF pc \in {"while", "wait", "check"}
        THEN IF d.stop THEN [d EXCEPT !.run.pc = "done"]
             ELSE [d EXCEPT !.run.pc = "next"]
        ELSE IF pc = "next"
        THEN IF d.dataloader_iter = NumBatches
             THEN [d EXCEPT !.stop = TRUE, !.run.pc = "exhausted"]
             ELSE [d EXCEPT !.run.batch = YieldedBatch(d.dataloader_iter),
                            !.dataloader_iter = @ + 1,
                            !.run.pc = "copy"]
        ELSE IF pc = "exhausted"
        THEN [d EXCEPT !.buffer_filled_event = TRUE, !.run.pc = "done"]
        ELSE IF pc = "copy"
        THEN [d EXCEPT !.overwritten = @ \/ d.buffered # NoBatch,
                       !.buffered = d.run.batch,
                       !.run.pc = "clear"]
        ELSE IF pc = "clear"
        THEN [d EXCEPT !.buffer_empty_event = FALSE, !.run.pc = "set"]
        ELSE [d EXCEPT !.buffer_filled_event = TRUE, !.run.pc = "while"]

\* Variant of run that does not look at the stop flag after the wait.
DataLoadingThread_run_no_recheck(d) ==
    LET pc == d.run.pc
    IN  IF pc = "while"
        THEN [d EXCEPT !.run.pc = IF d.stop THEN "done" ELSE "wait"]
        ELSE IF pc = "wait"
        THEN [d EXCEPT !.run.pc = "check"]
        ELSE IF pc = "check"
        THEN [d EXCEPT !.run.pc = "next"]
        ELSE IF pc = "next"
        THEN IF d.dataloader_iter = NumBatches
             THEN [d EXCEPT !.stop = TRUE, !.run.pc = "exhausted"]
             ELSE [d EXCEPT !.run.batch = YieldedBatch(d.dataloader_iter),
                            !.dataloader_iter = @ + 1,
                            !.run.pc = "copy"]
        ELSE IF pc = "exhausted"
        THEN [d EXCEPT !.buffer_filled_event = TRUE, !.run.pc = "done"]
        ELSE IF pc = "copy"
        THEN [d EXCEPT !.overwritten = @ \/ d.buffered # NoBatch,
                       !.buffered = d.run.batch,
                       !.run.pc = "clear"]
        ELSE IF pc = "clear"
        THEN [d EXCEPT !.buffer_empty_event = FALSE, !.run.pc = "set"]
        ELSE [d EXCEPT !.buffer_filled_event = TRUE, !.run.pc = "while"]

\* one statement of DataLoadingThread.run
DataLoadingThread_run(d) ==
    LET pc == d.run.pc
    IN  IF pc = "while"
        THEN [d EXCEPT !.run.pc = IF d.stop THEN "done" ELSE "wait"]
        ELSE IF pc = "wait"              \* self._buffer_empty_event.wait()
        THEN [d EXCEPT !.run.pc = "check"]
        ELSE IF pc = "check"
        THEN IF d.stop
             THEN [d EXCEPT !.buffer_filled_event = TRUE, !.run.pc = "done"]
             ELSE [d EXCEPT !.run.pc = "next"]
        ELSE IF pc = "next"              \* batch = next(self._dataloader_iter)
        THEN IF d.dataloader_iter = NumBatches
             THEN [d EXCEPT !.stop = TRUE, !.run.pc = "exhausted"]
             ELSE [d EXCEPT !.run.batch = YieldedBatch(d.dataloader_iter),
                            !.dataloader_iter = @ + 1,
                            !.run.pc = "copy"]
        ELSE IF pc = "exhausted"
        THEN [d EXCEPT !.buffer_filled_event = TRUE, !.run.pc = "done"]
        ELSE IF pc = "copy"              \* self._buffered = batch.to(device)
        THEN [d EXCEPT !.overwritten = @ \/ d.buffered # NoBatch,
                       !.buffered = d.run.batch,
                       !.run.pc = "clear"]
        ELSE IF pc = "clear"
        THEN [d EXCEPT !.buffer_empty_event = FALSE, !.run.pc = "set"]
        ELSE [d EXCEPT !.buffer_filled_event = TRUE, !.run.pc = "while"]

run_enabled(d) ==
    /\ d.run.pc # "done"
    /\ d.run.pc = "wait" => d.buffer_empty_event

\* Variant of get_next_batch that signals "buffer empty" before it has taken
\* the batch out of the buffer.
get_next_batch_signal_first(d, c) ==
    LET pc == d.callers[c].pc
    IN  IF pc = "wait" THEN [d EXCEPT !.callers[c].pc = "read"]
        ELSE IF pc = "read"
        THEN IF d.buffered = NoBatch
             THEN [d EXCEPT !.callers[c].pc = "wait",
                            !.callers[c].early_none =
                                @ \/ d.dataloader_iter < NumBatches]
             ELSE [d EXCEPT !.callers[c].batch = d.buffered,
                            !.callers[c].pc = "set_empty"]
        ELSE IF pc = "set_empty"
        THEN [d EXCEPT !.buffer_empty_event = TRUE, !.callers[c].pc = "clear_buffer"]
        ELSE IF pc = "clear_buffer"
        THEN [d EXCEPT !.buffered = NoBatch, !.callers[c].pc = "clear_filled"]
        ELSE IF pc = "clear_filled"
        THEN [d EXCEPT !.buffer_filled_event = FALSE, !.callers[c].pc = "return"]
        ELSE [d EXCEPT !.callers[c].got = Append(@, d.callers[c].batch),
                       !.callers[c].batch = NoBatch,
                       !.callers[c].pc = "wait"]

\* Variant of get_next_batch that leaves the batch in the buffer.
get_next_batch_keep(d, c) ==
    LET pc == d.callers[c].pc
    IN  IF pc = "wait" THEN [d EXCEPT !.callers[c].pc = "read"]
        ELSE IF pc = "read"
        THEN IF d.buffered = NoBatch
             THEN [d EXCEPT !.callers[c].pc = "wait",
                            !.callers[c].early_none =
                                @ \/ d.dataloader_iter < NumBatches]
             ELSE [d EXCEPT !.callers[c].batch = d.buffered,
                            !.callers[c].pc = "clear_filled"]
        ELSE IF pc = "clear_filled"
        THEN [d EXCEPT !.buffer_filled_event = FALSE, !.callers[c].pc = "set_empty"]
        ELSE IF pc = "set_empty"
        THEN [d EXCEPT !.buffer_empty_event = TRUE, !.callers[c].pc = "return"]
        ELSE [d EXCEPT !.callers[c].got = Append(@, d.callers[c].batch),
                       !.callers[c].batch = NoBatch,
                       !.callers[c].pc = "wait"]

\* Variant of get_next_batch that resets the buffer-filled signal also when
\* it found the buffer empty.
get_next_batch_reset_on_none(d, c) ==
    LET pc == d.callers[c].pc
    IN  IF pc = "wait" THEN [d EXCEPT !.callers[c].pc = "read"]
        ELSE IF pc = "read"
        THEN IF d.buffered = NoBatch
             THEN [d EXCEPT !.callers[c].pc = "wait",
                            !.buffer_filled_event = FALSE,
                            !.callers[c].early_none =
                                @ \/ d.dataloader_iter < NumBatches]
             ELSE [d EXCEPT !.callers[c].batch = d.buffered,
                            !.callers[c].pc = "clear_buffer"]
        ELSE IF pc = "clear_buffer"
        THEN [d EXCEPT !.buffered = NoBatch, !.callers[c].pc = "clear_filled"]
        ELSE IF pc = "clear_filled"
        THEN [d EXCEPT !.buffer_filled_event = FALSE, !.callers[c].pc = "set_empty"]
        ELSE IF pc = "set_empty"
        THEN [d EXCEPT !.buffer_empty_event = TRUE, !.callers[c].pc = "return"]
        ELSE [d EXCEPT !.callers[c].got = Append(@, d.callers[c].batch),
                       !.callers[c].batch = NoBatch,
                       !.callers[c].pc = "wait"]

\* one statement of DataLoadingThread.get_next_batch, called by thread c; a
\* caller that has returned calls again
get_next_batch(d, c) ==
    LET pc == d.callers[c].pc
    IN  IF pc = "wait"                   \* self._buffer_filled_event.wait()
        THEN [d EXCEPT !.callers[c].pc = "read"]
        ELSE IF pc = "read"              \* batch = self._buffered; if batch is None
        THEN IF d.buffered = NoBatch
             THEN [d EXCEPT !.callers[c].pc = "wait",
                            !.callers[c].early_none =
                                @ \/ d.dataloader_iter < NumBatches]
             ELSE [d EXCEPT !.callers[c].batch = d.buffered,
                            !.callers[c].pc = "clear_buffer"]
        ELSE IF pc = "clear_buffer"      \* self._buffered = None
        THEN [d EXCEPT !.buffered = NoBatch, !.callers[c].pc = "clear_filled"]
        ELSE IF pc = "clear_filled"
        THEN [d EXCEPT !.buffer_filled_event = FALSE, !.callers[c].pc = "set_empty"]
        ELSE IF pc = "set_empty"
        THEN [d EXCEPT !.buffer_empty_event = TRUE, !.callers[c].pc = "return"]
        ELSE [d EXCEPT !.callers[c].got = Append(@, d.callers[c].batch),
                       !.callers[c].batch = NoBatch,
                       !.callers[c].pc = "wait"]

get_next_batch_enabled(d, c) ==
    d.callers[c].pc = "wait" => d.buffer_filled_event

\* one statement of DataLoadingThread.stop
stop(d) ==
    IF d.stopper = "stop" THEN [d EXCEPT !.stop = TRUE, !.stopper = "set_filled"]
    ELSE IF d.stopper = "set_filled"
    THEN [d EXCEPT !.buffer_filled_event = TRUE, !.stopper = "set_empty"]
    ELSE [d EXCEPT !.buffer_empty_event = TRUE, !.stopper = "done"]

InitLoader ==
    /\ \E n \in Consumers, may_stop \in BOOLEAN :
           dlt = DataLoadingThread(n, may_stop)
    /\ u = Idle
    /\ ref = Idle
    /\ drv = Idle

Run ==
    /\ run_enabled(dlt)
    /\ dlt' = DataLoadingThread_run(dlt)
    /\ UNCHANGED << u, ref, drv >>

GetNextBatch ==
    \E c \in DOMAIN dlt.callers :
        /\ get_next_batch_enabled(dlt, c)
        /\ dlt' = get_next_batch(dlt, c)
        /\ UNCHANGED << u, ref, drv >>

Stop ==
    /\ dlt.stopper \in {"stop", "set_filled", "set_empty"}
    /\ dlt' = stop(dlt)
    /\ UNCHANGED << u, ref, drv >>

NextLoader == Run \/ GetNextBatch \/ Stop

SpecLoader == InitLoader /\ [][NextLoader]_vars



\* The interpreter schedules every runnable thread again and again.
SpecLoaderFair ==
    /\ InitLoader /\ [][NextLoader]_vars
    /\ WF_vars(Run)
    /\ \A c \in Consumers :
           WF_vars(/\ c \in DOMAIN dlt.callers
                   /\ get_next_batch_enabled(dlt, c)
                   /\ dlt' = get_next_batch(dlt, c)
                   /\ UNCHANGED << u, ref, drv >>)

\* ------------------------------------------------------ argument descriptors
\* An ArgInfo is built step by step with add_step / append_step and processed
\* on the batches of the data source.  The postproc step is the wrapper of pp
\* on the model rewritten with pipeline_postproc, its context a fresh one.
Steps ==
    {noop, get_attr("f"), get_item("k"), postproc("pp"),
     from_scalar([py |-> 7]), from_scalar(None),
     from_list(<< Scalar([py |-> 7]), NestedArgInfo(<< noop, get_attr("f") >>) >>),
     from_dict(<< NestedArgInfo(<< postproc("pp") >>), NestedArgInfo(<< >>) >>)}
\* getattr, indexing, the wrapped module and the nested ArgInfos of a list or
\* dict step are applied to a batch or to what the steps before made of one
YieldsBatch(step) == step.kind \in {"noop", "get_attr", "get_item", "postproc"}
NeedsBatch(step) == YieldsBatch(step) \/ step.kind \in {"list", "dict"}
Processable(steps) ==
    \A i \in 1 .. Len(steps) :
        NeedsBatch(steps[i]) => \A j \in 1 .. (i - 1) : YieldsBatch(steps[j])

InitArgInfo ==
    /\ u = attach_hook(_rewrite_model(_add_context(SparseDataDistUtil(FALSE, TRUE, FALSE)), 1))
    /\ ref = Idle
    /\ drv = [pc |-> "arginfo", steps |-> << >>, processed |-> {}]
    /\ dlt = Idle

AddStep ==
    \E step \in Steps :
        /\ Len(drv.steps) < MaxSteps
        /\ Processable(add_step(drv.steps, step))
        /\ drv' = [drv EXCEPT !.steps = add_step(@, step)]
        /\ UNCHANGED << u, ref, dlt >>

AppendStep ==
    \E step \in Steps :
        /\ Len(drv.steps) < MaxSteps
        /\ Processable(append_step(drv.steps, step))
        /\ drv' = [drv EXCEPT !.steps = append_step(@, step)]
        /\ UNCHANGED << u, ref, dlt >>

ProcessSteps ==
    \E b \in Batches :
        /\ u' = process_steps(u, drv.steps, RawBatch(b)).s
        /\ drv' = [drv EXCEPT !.processed = @ \cup {b}]
        /\ UNCHANGED << ref, dlt >>

NextArgInfo == AddStep \/ AppendStep \/ ProcessSteps

SpecArgInfo == InitArgInfo /\ [][NextArgInfo]_vars

\* ------------------------------------------------------ access path replay
\* An argument reached from a placeholder through getattr / getitem / dict-get
\* nodes is resolved by _get_node_args_helper_inner and the recorded steps are
\* replayed on the batches of the data source.
PhKeys ==
    {Str(<< "a" >>), Str(<< "a", ".", "b" >>), Str(<< "a", "[", "b", "]" >>),
     Str(<< "a", "[", "1", "0", "]" >>), Str(<< "a", "[", "1", "b", "]" >>),
     Str(<< "a", "[", "b", "]", "[", "0", "]" >>)}
Placeholders == {Placeholder} \cup {PlaceholderAt(k) : k \in PhKeys}
AccessDepths == 0 .. 2
Accesses(n) ==
    {GetAttr(n, Str(<< "f" >>)), GetItem(n, PyInt(0)),
     GetItem(n, Str(<< "k" >>)), DictGet(n, Str(<< "k" >>))}
RECURSIVE AccessDepth(_)
AccessDepth(n) == IF n.op = "placeholder" THEN 0 ELSE 1 + AccessDepth(n.of)

InitResolve ==
    /\ u = attach_hook(_rewrite_model(_add_context(SparseDataDistUtil(FALSE, TRUE, FALSE)), 1))
    /\ ref = Idle
    /\ \E ph \in Placeholders : drv = [pc |-> "traced", node |-> ph]
    /\ dlt = Idle

\* the traced program applies one more access to the value of the node
TraceAccess ==
    /\ drv.pc = "traced"
    /\ AccessDepth(drv.node) + 1 \in AccessDepths
    /\ \E n \in Accesses(drv.node) : drv' = [drv EXCEPT !.node = n]
    /\ UNCHANGED << u, ref, dlt >>

ResolveArg ==
    /\ drv.pc = "traced"
    /\ LET r == _get_node_args_helper_inner(u, drv.node, << >>, FALSE, 1)
       IN /\ r.found
          /\ drv' = [pc |-> "resolved", node |-> drv.node, steps |-> r.arg_info]
    /\ UNCHANGED << u, ref, dlt >>

ReplaySteps ==
    /\ drv.pc = "resolved"
    /\ \E b \in Batches :
           drv' = [pc |-> "replayed", node |-> drv.node, steps |-> drv.steps,
                   batch |-> b,
                   value |-> process_steps(u, drv.steps, RawBatch(b)).val]
    /\ UNCHANGED << u, ref, dlt >>

NextResolve == TraceAccess \/ ResolveArg \/ ReplaySteps

SpecResolve == InitResolve /\ [][NextResolve]_vars

\* -------------------------------------------------- semi-sync bookkeeping
\* One EmbeddingTrainPipelineContext, the embedding lookups started on it and
\* the forward objects of the pipelined modules called on it, all of the
\* detaching class or all of the in-sync class.  A caller may go on after a
\* call that raised.
EmbeddingResults ==
    {Dict(<< >>, << >>),
     Dict(<< "f1" >>, << JaggedTensor("t1") >>),
     Dict(<< "f1", "f2" >>, << JaggedTensor("t1"), JaggedTensor("t2") >>),
     Dict(<< "f1", "f2" >>, << JaggedTensor("t1"), [type |-> "Tensor"] >>),
     KeyedTensor(<< "f1" >>, "t1"),
     KeyedTensor(<< "f1", "f2", "f3" >>, "t123"),
     [type |-> "Tensor"]}
Invocations == 1 .. 2
SemiSyncContext == u.contexts[1]

InitSemiSync ==
    /\ u = [SparseDataDistUtil(FALSE, FALSE, FALSE) EXCEPT
               !.heap = << EmbeddingTrainPipelineContext(0) >>,
               !.contexts = << 1 >>,
               !.next_index = 1]
    /\ ref = Idle
    /\ \E in_sync \in BOOLEAN : drv = [pc |-> "semisync", in_sync |-> in_sync]
    /\ dlt = Idle

\* the wait phase has left the module's tensors request and module context;
\* _start_embedding_lookup stores the awaitable of the output dist
StartEmbeddingLookup ==
    \E name \in ShardedModules, e \in EmbeddingResults :
        LET c == Ctx(u, SemiSyncContext)
            module_ctx == create_context(name, RawBatch(0))
            waited == [c EXCEPT
                         !.module_contexts = Put(@, name, module_ctx),
                         !.input_dist_tensors_requests =
                             Put(@, name, tensors_request(
                                    input_dist(module_ctx, << RawBatch(0) >>)))]
            s == _start_embedding_lookup(SetCtx(Begin(u), SemiSyncContext, waited),
                                         name, SemiSyncContext)
        IN /\ name \notin Keys(c.embedding_a2a_requests)
           /\ u' = [s EXCEPT !.heap[SemiSyncContext].embedding_a2a_requests[name] =
                                [embeddings |-> e] @@ @]
           /\ UNCHANGED << ref, drv, dlt >>

EmbeddingForward ==
    \E name \in ShardedModules :
        /\ Len(Ctx(u, SemiSyncContext).embedding_tensors) + 1 \in Invocations
        /\ u' = IF drv.in_sync
                THEN InSyncEmbeddingPipelinedForward_call(
                         Begin(u), name, SemiSyncContext, RawBatch(0))
                ELSE EmbeddingPipelinedForward_call(
                         Begin(u), name, SemiSyncContext, RawBatch(0))
        /\ UNCHANGED << ref, drv, dlt >>

NextSemiSync == StartEmbeddingLookup \/ EmbeddingForward

SpecSemiSync == InitSemiSync /\ [][NextSemiSync]_vars

\* ------------------------------------------------ ahead-of-time compilation
\* A module of the rewritten model: a ShardedModule or another nn.Module with
\* its named children in order.  scriptable says whether torch.jit.script
\* succeeds on it, scripted that it has been replaced by its compiled form.
ShardedModule ==
    [sharded |-> TRUE, scriptable |-> FALSE, scripted |-> FALSE,
     children |-> << >>]
Module(scriptable, children) ==
    [sharded |-> FALSE, scriptable |-> scriptable, scripted |-> FALSE,
     children |-> children]
LeafModules == {ShardedModule, Module(TRUE, << >>), Module(FALSE, << >>)}
Containers ==
    {Module(ok, << a >>) : ok \in BOOLEAN, a \in LeafModules}
        \cup {Module(ok, << a, b >>) : ok \in BOOLEAN, a \in LeafModules, b \in LeafModules}
Submodules == LeafModules \cup Containers
GraphModules ==
    {Module(TRUE, << a >>) : a \in Submodules}
        \cup {Module(TRUE, << a, b >>) : a \in Submodules, b \in Submodules}
        \cup {Module(TRUE, << a, b, c >>) :
                  a \in Submodules, b \in LeafModules, c \in Submodules}

\* _jit_modules(module, path, optional): the children that are or contain a
\* ShardedModule are collected first, descending into every other child; when
\* there is one, each remaining child is compiled and swapped in.  The result
\* is the module as it is left, the returned flag and the exception raised.
RECURSIVE _jit_modules(_, _)
RECURSIVE _jit_modules_sharded_children(_, _, _)
RECURSIVE _jit_modules_script(_, _, _)

_jit_modules_descended(acc, i, sub, optional) ==
    _jit_modules_sharded_children(
        [acc EXCEPT !.module.children[i] = sub.module,
                    !.sharded_children =
                        IF sub.child_sharded THEN @ \cup {i} ELSE @,
                    !.err = sub.err],
        i + 1, optional)

_jit_modules_sharded_children(acc, i, optional) ==
    IF i > Len(acc.module.children) \/ ~Ok(acc) THEN acc
    ELSE IF acc.module.children[i].sharded
         THEN _jit_modules_sharded_children(
                  [acc EXCEPT !.sharded_children = @ \cup {i}], i + 1, optional)
         ELSE _jit_modules_descended(
                  acc, i, _jit_modules(acc.module.children[i], optional),
                  optional)

RECURSIVE _jit_modules_script_stop(_, _, _)
_jit_modules_script_stop(acc, i, optional) ==
    IF i > Len(acc.module.children) \/ ~Ok(acc) THEN acc
    ELSE IF i \in acc.sharded_children
         THEN _jit_modules_script_stop(acc, i + 1, optional)
         ELSE IF acc.module.children[i].scriptable
              THEN _jit_modules_script_stop(
                       [acc EXCEPT !.module.children[i].scripted = TRUE],
                       i + 1, optional)
              ELSE IF ~optional
                   THEN [acc EXCEPT !.err = "Exception"]
                   ELSE acc

_jit_modules_script(acc, i, optional) ==
    IF i > Len(acc.module.children) \/ ~Ok(acc) THEN acc
    ELSE IF i \in acc.sharded_children
         THEN _jit_modules_script(acc, i + 1, optional)
         ELSE IF acc.module.children[i].scriptable
              THEN _jit_modules_script(
                       [acc EXCEPT !.module.children[i].scripted = TRUE],
                       i + 1, optional)
              ELSE IF ~optional
                   THEN [acc EXCEPT !.err = "Exception"]
                   ELSE _jit_modules_script(acc, i + 1, optional)

_jit_modules_compiled(acc, optional) ==
    IF ~Ok(acc) THEN [module |-> acc.module, child_sharded |-> FALSE,
                      err |-> acc.err]
    ELSE IF acc.sharded_children = {}
         THEN [module |-> acc.module, child_sharded |-> FALSE, err |-> "none"]
         ELSE [module |-> _jit_modules_script(acc, 1, optional).module,
               child_sharded |-> TRUE,
               err |-> _jit_modules_script(acc, 1, optional).err]

_jit_modules(module, optional) ==
    _jit_modules_compiled(
        _jit_modules_sharded_children(
            [module |-> module, sharded_children |-> {}, err |-> "none"],
            1, optional),
        optional)

\* The GraphModule of a rewritten model is compiled once, with failures
\* tolerated or not.
InitJit ==
    /\ \E module \in GraphModules, optional \in BOOLEAN :
           drv = [pc |-> "rewritten", optional |-> optional,
                  graph_model |-> module, module |-> module, err |-> "none"]
    /\ u = Idle
    /\ ref = Idle
    /\ dlt = Idle

JitModules ==
    /\ drv.pc = "rewritten"
    /\ drv' = [drv EXCEPT !.pc = "compiled",
                          !.module = _jit_modules(drv.graph_model, drv.optional).module,
                          !.err = _jit_modules(drv.graph_model, drv.optional).err]
    /\ UNCHANGED << u, ref, dlt >>

NextJit == JitModules

SpecJit == InitJit /\ [][NextJit]_vars

\* ---------------------------------------------------- PrecisionSessionMetric
\* The arguments of the constructor the checks look at: the compute mode, the
\* fused update limit and, per task, the session metric definition with its
\* top threshold.
RecComputeMode ==
    {"FUSED_TASKS_COMPUTATION", "UNFUSED_TASKS_COMPUTATION",
     "FUSED_TASKS_AND_STATES_COMPUTATION"}
SessionMetricDef(top_threshold) == [top_threshold |-> top_threshold]
RecTaskInfo(session_metric_def) == [session_metric_def |-> session_metric_def]
Tasks ==
    {RecTaskInfo(None)}
        \cup {RecTaskInfo(SessionMetricDef(t)) : t \in {None, [py |-> 1], [py |-> 3]}}
TaskLists ==
    {<< >>} \cup {<< a >> : a \in Tasks} \cup {<< a, b >> : a \in Tasks, b \in Tasks}
FusedUpdateLimits == {-1, 0, 1, 2}
MetricConfigs ==
    [compute_mode : RecComputeMode, fused_update_limit : FusedUpdateLimits,
     tasks : TaskLists]

RecMetricException(message) ==
    [err |-> "RecMetricException", message |-> message, base |-> None,
     metric |-> None]

\* the loop over the tasks: the exception of the first task in list order
\* without a session metric definition or without a top threshold
RECURSIVE check_tasks(_)
check_tasks(tasks) ==
    IF tasks = << >> THEN "none"
    ELSE IF Head(tasks).session_metric_def = None
         THEN "Please, specify the session metric definition"
         ELSE IF Head(tasks).session_metric_def.top_threshold = None
              THEN "Please, specify the top threshold"
              ELSE check_tasks(Tail(tasks))

\* super().__init__ receives the arguments as they were given; whether the
\* base constructor itself raises is open here (base_raises)
RecMetric_init(config, base_raises) ==
    IF base_raises
    THEN [err |-> "Exception", message |-> "base", base |-> config,
          metric |-> None]
    ELSE [err |-> "none", message |-> "none", base |-> config,
          metric |-> config]

PrecisionSessionMetric_defaulting(config, base_raises) ==
    IF config.compute_mode \in {"FUSED_TASKS_COMPUTATION",
                                "FUSED_TASKS_AND_STATES_COMPUTATION"}
    THEN RecMetricException(
             "Fused computation is not supported for precision session-level metrics")
    ELSE IF check_tasks(config.tasks) # "none"
         THEN RecMetricException(check_tasks(config.tasks))
         ELSE RecMetric_init([config EXCEPT !.fused_update_limit = 0],
                             base_raises)

\* PrecisionSessionMetric.__init__
PrecisionSessionMetric(config, base_raises) ==
    IF config.compute_mode \in {"FUSED_TASKS_COMPUTATION",
                                "FUSED_TASKS_AND_STATES_COMPUTATION"}
    THEN RecMetricException(
             "Fused computation is not supported for precision session-level metrics")
    ELSE IF config.fused_update_limit > 0
         THEN RecMetricException(
                  "Fused update is not supported for precision session-level metrics")
         ELSE IF check_tasks(config.tasks) # "none"
              THEN RecMetricException(check_tasks(config.tasks))
              ELSE RecMetric_init(config, base_raises)

InitMetric ==
    /\ \E config \in MetricConfigs :
           drv = [pc |-> "configured", config |-> config, result |-> None]
    /\ u = Idle
    /\ ref = Idle
    /\ dlt = Idle

Construct ==
    \E base_raises \in BOOLEAN :
        /\ drv.pc = "configured"
        /\ drv' = [drv EXCEPT !.pc = "constructed",
                              !.result = PrecisionSessionMetric(drv.config,
                                                                base_raises)]
        /\ UNCHANGED << u, ref, dlt >>

NextMetric == Construct

SpecMetric == InitMetric /\ [][NextMetric]_vars

\* ------------------------------------------------------ block bucketization
\* Python lists are functions on 0 .. n - 1.  A KeyedJaggedTensor has its
\* keys, one length per (feature, batch position) in feature-major order, the
\* row ids and, when weighted, one weight per row id; the weights are small
\* whole numbers, which float() leaves as they are.
FeatureCounts == {1, 2}
BatchSizes == {1, 2}
TrainerCounts == {1, 2}
BlockSizes == {1, 2}
SlotLengths == 0 .. 2
TotalLengths == 0 .. 3
RowIds == 0 .. 3
Size(list) == Cardinality(DOMAIN list)
RECURSIVE accumulate_to(_, _)
accumulate_to(list, k) ==
    IF k = 0 THEN 0 ELSE accumulate_to(list, k - 1) + list[k - 1]
\* list(itertools.accumulate([0] + list))
accumulate(list) == [k \in 0 .. Size(list) |-> accumulate_to(list, k)]
KeyedJaggedTensor(keys, lengths, values, weights, weighted) ==
    [keys |-> keys, lengths |-> lengths, values |-> values,
     weights |-> weights, weighted |-> weighted]
KeyedJaggedTensors ==
    UNION {UNION {UNION {
        {KeyedJaggedTensor([f \in 0 .. features - 1 |-> f], lengths, values,
                           IF weighted
                           THEN [i \in DOMAIN values |-> 10 + i] ELSE << >>,
                           weighted) :
             values \in [0 .. accumulate_to(lengths, features * batch_size) - 1
                             -> RowIds]} :
        lengths \in {l \in [0 .. features * batch_size - 1 -> SlotLengths] :
                         accumulate_to(l, features * batch_size) \in TotalLengths}} :
        features \in FeatureCounts, batch_size \in BatchSizes} :
        weighted \in BOOLEAN}

\* _compute_translated_lengths: p holds the arguments and batch_size; the
\* inner loop runs over the rows start .. end - 1 of one feature and batch
\* iteration, the outer loop over the iterations with its bookkeeping.
RECURSIVE _compute_translated_lengths_rows(_, _, _, _, _, _)
_compute_translated_lengths_rows(translated_lengths, current, end, feature_offset, batch_iteration, p) ==
    IF current >= end THEN translated_lengths
    ELSE IF p.row_indices[current] \div p.block_sizes[feature_offset]
                >= p.trainers_size
         THEN _compute_translated_lengths_rows(
                  translated_lengths, current + 1, end, feature_offset,
                  batch_iteration, p)
         ELSE _compute_translated_lengths_rows(
                  [translated_lengths EXCEPT
                       ![(p.row_indices[current] \div p.block_sizes[feature_offset])
                             * p.lengths_size
                         + feature_offset * p.batch_size + batch_iteration]
                           = @ + 1],
                  current + 1, end, feature_offset, batch_iteration, p)

RECURSIVE _compute_translated_lengths_from(_, _, _, _, _)
_compute_translated_lengths_from(translated_lengths, iteration, feature_offset, batch_iteration, p) ==
    IF iteration >= Size(p.indices_offsets) - 1 THEN translated_lengths
    ELSE _compute_translated_lengths_from(
             _compute_translated_lengths_rows(
                 translated_lengths, p.indices_offsets[iteration],
                 p.indices_offsets[iteration + 1], feature_offset,
                 batch_iteration, p),
             iteration + 1, (iteration + 1) \div p.batch_size,
             (batch_iteration + 1) % p.batch_size, p)

_compute_translated_lengths(p) ==
    _compute_translated_lengths_from(
        [k \in 0 .. p.trainers_size * p.lengths_size - 1 |-> 0], 0, 0, 0, p)

\* _compute_translated_indices_with_weights: acc holds the output list and
\* the running translated_indices_offsets
RECURSIVE _compute_translated_indices_rows(_, _, _, _, _, _)
_compute_translated_indices_rows(acc, current, end, feature_offset, batch_iteration, p) ==
    IF current >= end THEN acc
    ELSE IF p.row_indices[current] \div p.block_sizes[feature_offset]
                >= p.trainers_size
         THEN _compute_translated_indices_rows(
                  acc, current + 1, end, feature_offset, batch_iteration, p)
         ELSE _compute_translated_indices_rows(
                  [out |->
                       [acc.out EXCEPT
                            ![acc.offsets[
                                  (p.row_indices[current]
                                       \div p.block_sizes[feature_offset])
                                      * p.lengths_size
                                  + feature_offset * p.batch_size
                                  + batch_iteration]]
                                = << p.row_indices[current]
                                         % p.block_sizes[feature_offset],
                                     IF p.weighted /\ Size(p.weights) > 0
                                     THEN p.weights[current] ELSE 0 >>],
                   offsets |->
                       [acc.offsets EXCEPT
                            ![(p.row_indices[current]
                                   \div p.block_sizes[feature_offset])
                                  * p.lengths_size
                              + feature_offset * p.batch_size
                              + batch_iteration] = @ + 1]],
                  current + 1, end, feature_offset, batch_iteration, p)

RECURSIVE _compute_translated_indices_from(_, _, _, _, _)
_compute_translated_indices_from(acc, iteration, feature_offset, batch_iteration, p) ==
    IF iteration >= Size(p.indices_offsets) - 1 THEN acc
    ELSE _compute_translated_indices_from(
             _compute_translated_indices_rows(
                 acc, p.indices_offsets[iteration],
                 p.indices_offsets[iteration + 1], feature_offset,
                 batch_iteration, p),
             iteration + 1, (iteration + 1) \div p.batch_size,
             (batch_iteration + 1) % p.batch_size, p)

_compute_translated_indices_with_weights(translated_lengths, p) ==
    _compute_translated_indices_from(
        [out |-> [k \in DOMAIN p.row_indices |-> << 0, 0 >>],
         offsets |-> accumulate(translated_lengths)],
        0, 0, 0, p).out

block_bucketize_args_one_block_size(keyed_jagged_tensor, trainers_size, block_sizes) ==
    [row_indices |-> keyed_jagged_tensor.values,
     weights |-> keyed_jagged_tensor.weights,
     weighted |-> keyed_jagged_tensor.weighted,
     indices_offsets |-> accumulate(keyed_jagged_tensor.lengths),
     lengths_size |-> Size(keyed_jagged_tensor.lengths),
     trainers_size |-> trainers_size,
     block_sizes |-> [f \in DOMAIN block_sizes |-> block_sizes[0]],
     batch_size |-> Size(keyed_jagged_tensor.lengths) \div Size(block_sizes)]

block_bucketize_args(keyed_jagged_tensor, trainers_size, block_sizes) ==
    [row_indices |-> keyed_jagged_tensor.values,
     weights |-> keyed_jagged_tensor.weights,
     weighted |-> keyed_jagged_tensor.weighted,
     indices_offsets |-> accumulate(keyed_jagged_tensor.lengths),
     lengths_size |-> Size(keyed_jagged_tensor.lengths),
     trainers_size |-> trainers_size,
     block_sizes |-> block_sizes,
     batch_size |-> Size(keyed_jagged_tensor.lengths) \div Size(block_sizes)]

block_bucketize_result(keyed_jagged_tensor, trainers_size, translated_lengths, translated_indices_with_weights) ==
    KeyedJaggedTensor(
        [k \in 0 .. trainers_size * Size(keyed_jagged_tensor.keys) - 1 |->
             keyed_jagged_tensor.keys[k % Size(keyed_jagged_tensor.keys)]],
        translated_lengths,
        [k \in DOMAIN translated_indices_with_weights |->
             translated_indices_with_weights[k][1]],
        IF keyed_jagged_tensor.weighted /\ Size(keyed_jagged_tensor.weights) > 0
        THEN [k \in DOMAIN translated_indices_with_weights |->
                  translated_indices_with_weights[k][2]]
        ELSE << >>,
        keyed_jagged_tensor.weighted /\ Size(keyed_jagged_tensor.weights) > 0)

block_bucketize_translated(keyed_jagged_tensor, trainers_size, translated_lengths, p) ==
    block_bucketize_result(
        keyed_jagged_tensor, trainers_size, translated_lengths,
        _compute_translated_indices_with_weights(translated_lengths, p))

block_bucketize_ref(keyed_jagged_tensor, trainers_size, block_sizes) ==
    block_bucketize_translated(
        keyed_jagged_tensor, trainers_size,
        _compute_translated_lengths(
            block_bucketize_args(keyed_jagged_tensor, trainers_size,
                                 block_sizes)),
        block_bucketize_args(keyed_jagged_tensor, trainers_size, block_sizes))

\* A jagged batch, the number of trainers and one block size per feature are
\* given; the batch is bucketized once.
InitBucketize ==
    /\ \E kjt \in KeyedJaggedTensors, trainers_size \in TrainerCounts :
           \E block_sizes \in [DOMAIN kjt.keys -> BlockSizes] :
               drv = [pc |-> "batch", kjt |-> kjt,
                      trainers_size |-> trainers_size,
                      block_sizes |-> block_sizes, bucketized |-> None]
    /\ u = Idle
    /\ ref = Idle
    /\ dlt = Idle

Bucketize ==
    /\ drv.pc = "batch"
    /\ drv' = [drv EXCEPT !.pc = "bucketized",
                          !.bucketized = block_bucketize_ref(
                              drv.kjt, drv.trainers_size, drv.block_sizes)]
    /\ UNCHANGED << u, ref, dlt >>

NextBucketize == Bucketize

SpecBucketize == InitBucketize /\ [][NextBucketize]_vars

\* ------------------------------------------------------------------ claims

\* C1: in a staged run the model forward of batch k is served, for every
\* pipelined module, from the context with index k, which is then the front of
\* the window and holds the requests started, waited (and prefetched) for
\* batch k; no forward consumes another batch's data or a priming context, and
\* every forward of the run is served.
C1_Lockstep ==
    /\ \A e \in u.fwdlog :
          /\ e.ctx = e.input /\ e.ctx >= 0 /\ e.slot = 0
          /\ e.data = {e.input} /\ e.mctx = e.input
          /\ e.ctx \in u.started /\ e.ctx \in u.populated
          /\ u.with_prefetch => e.ctx \in u.prefetched
    /\ \A k \in 0 .. (drv.forwarded - 1) :
          \A m \in Range(u.pipelined_modules) :
              \E e \in u.fwdlog : e.module = m /\ e.input = k
    /\ u.err = "none"

C1_Witness ==
    /\ drv.pc = "done" /\ u.with_prefetch /\ u.pipeline_postproc /\ u.detached = 1
    /\ \E e \in u.fwdlog : e.module = "m1" /\ e.input = NumBatches - 1 /\ e.slot = 0

\* C2: communication is started on the context with index N+1 only after
\* wait_sparse_data_dist was applied to the context with index N, and the
\* start slot changes only in an operation that waited on the old start slot.
StartIndex(s) ==
    IF Len(s.contexts) < ExpectedContexts(s) THEN -3
    ELSE Ctx(s, s.contexts[ExpectedContexts(s)]).index

C2_OrderingLaw ==
    [][ /\ \A n \in u'.started : n >= 1 => (n - 1) \in u'.waited
        /\ (StartIndex(u) >= 0 /\ StartIndex(u') # StartIndex(u))
              => (StartIndex(u) \in u'.waited /\ StartIndex(u') = StartIndex(u) + 1) ]_vars

C2_Witness ==
    /\ 2 \in u.started /\ 1 \in u.waited /\ u.detached = 1 /\ u.initialized

\* C3 (as amended): on every context the successful phases are ordered
\* start < wait < prefetch (if enabled) < forward consumption; start and wait
\* are served from the last slot, prefetch from slot [1], and the forward from
\* slot [0], except that a forward run before the first _advance_context
\* (without prefetch) is served from the last slot, where initialization left
\* the forwards pointing.
\* u.slots holds <<"start", d>> and <<"wait", d>> with d the distance from the
\* back of the window (1 = last) and <<"prefetch", i>> with i counted from the
\* front (front = 0); fwdlog entries carry the slot counted from the front.
C3_PhaseOrderWithin ==
    /\ u.populated \subseteq (u.started \cap u.waited)
    /\ u.prefetched \subseteq u.populated
    /\ \A e \in u.fwdlog :
          /\ e.ctx \in u.populated
          /\ u.with_prefetch => e.ctx \in u.prefetched
    /\ u.slots \subseteq {<<"start", 1>>, <<"wait", 1>>, <<"prefetch", 1>>}

C4_WindowSize ==
    IF Len(u.heap) = 0 THEN Len(u.contexts) = 0
    ELSE Len(u.contexts) = (IF u.with_prefetch THEN 3 ELSE 2)

C4_Witness ==
    /\ u.advanced >= 2 /\ u.detached = 1 /\ u.initialized
    /\ u.with_prefetch /\ Len(u.contexts) = 3

\* C5: whenever _advance_context returns normally, the oldest context is gone
\* from the front, the other contexts moved up unchanged, one freshly created
\* context (index _next_index, empty maps) sits at the back, and every
\* pipelined module forward and every PipelinedPostproc refers to the new
\* front of the window.
C5_AdvancePost ==
    LET r == _advance_context(Begin(u))
        n == Len(u.contexts)
    IN  Ok(r) =>
          /\ n >= 1 /\ Len(r.contexts) = n
          /\ \A i \in 1 .. (n - 1) :
                /\ r.contexts[i] = u.contexts[i + 1]
                /\ Ctx(r, r.contexts[i]) = Ctx(u, u.contexts[i + 1])
          /\ r.contexts[n] = Len(u.heap) + 1
          /\ Ctx(r, r.contexts[n]) = TrainPipelineContext(u.next_index, u.with_prefetch)
          /\ r.next_index = u.next_index + 1
          /\ \A i \in 1 .. Len(r.pipelined_modules) :
                r.forward[r.pipelined_modules[i]].context = r.contexts[1]
          /\ \A f \in Range(r.pipelined_postprocs) :
                r.postproc_context[f] = r.contexts[1]

\* a state right after the second advance of a util with postproc wrappers
C5_Witness ==
    /\ u.advanced >= 2 /\ u.initialized /\ u.pipeline_postproc
    /\ Len(u.pipelined_postprocs) > 0
    /\ Ok(_advance_context(Begin(u)))
    /\ \A f \in Range(u.pipelined_postprocs) : u.postproc_context[f] = u.contexts[1]
    /\ Ctx(u, u.contexts[Len(u.contexts)]) =
           TrainPipelineContext(u.next_index - 1, u.with_prefetch)

\* C6: an intercepting forward called on a context without an entry for the
\* module in the variant's request map fails with an assertion error and
\* changes nothing; called with an entry it succeeds, removes the module's
\* pending request and module context from that context and nothing else, and
\* a second call on the same context fails with an assertion error (with the
\* request but no module context left the call raises KeyError and is no
\* success either).  Over a run no module is served twice from the same
\* context.
OnceOnly(s, name, cid, Call(_, _, _, _), requests(_), mctxs(_)) ==
    LET c == Ctx(s, cid)
        r == Call(Begin(s), name, cid, RawBatch(0))
        again == Call(Begin(r), name, cid, RawBatch(0))
    IN  IF name \notin Keys(requests(c))
        THEN r = Raise(Begin(s), "AssertionError")
        ELSE IF name \notin Keys(mctxs(c))
        THEN r.err = "KeyError"
        ELSE /\ Ok(r)
             /\ requests(Ctx(r, cid)) = Pop(requests(c), name)
             /\ mctxs(Ctx(r, cid)) = Pop(mctxs(c), name)
             /\ \A k \in 1 .. Len(s.heap) : k # cid => r.heap[k] = s.heap[k]
             /\ again = Raise(Begin(r), "AssertionError")

input_dist_tensors_requests_of(c) == c.input_dist_tensors_requests
module_contexts_of(c) == c.module_contexts
module_input_post_prefetch_of(c) == c.module_input_post_prefetch
module_contexts_post_prefetch_of(c) == c.module_contexts_post_prefetch
embedding_a2a_requests_of(c) == c.embedding_a2a_requests

C6_ForwardOnce ==
    /\ ~u.served_twice
    /\ \A name \in ShardedModules : \A cid \in 1 .. Len(u.heap) :
        /\ OnceOnly(u, name, cid, PipelinedForward_call,
                    input_dist_tensors_requests_of, module_contexts_of)
        /\ OnceOnly(u, name, cid, PrefetchPipelinedForward_call,
                    module_input_post_prefetch_of, module_contexts_post_prefetch_of)
        /\ OnceOnly(u, name, cid, EmbeddingPipelinedForward_call,
                    embedding_a2a_requests_of, module_contexts_of)
        /\ \A looked \in ShardedModules :
              LET e == _start_embedding_lookup(Begin(u), looked, cid)
              IN  Ok(e) => OnceOnly(e, name, cid, EmbeddingPipelinedForward_call,
                                      embedding_a2a_requests_of, module_contexts_of)

\* a served forward and a context still holding a pending request
C6_Witness ==
    /\ \E e \in u.fwdlog : e.module = "m3"
    /\ \E cid \in 1 .. Len(u.heap) :
          /\ "m3" \in Keys(Ctx(u, cid).input_dist_tensors_requests)
          /\ Ok(_start_embedding_lookup(Begin(u), "m3", cid))
    /\ u.with_prefetch
          => \E cid \in 1 .. Len(u.heap) :
                 "m3" \in Keys(Ctx(u, cid).module_input_post_prefetch)

\* C7: in a staged run with postproc pipelining the wrapped auxiliary module
\* has been executed exactly once for every batch given to
\* start_sparse_data_dist so far (the first batch, steady-state batches and
\* the batch on which the util re-attaches), and never for another batch; the
\* model forward of a batch does not execute it again.
C7_PostprocOnce ==
    u.pipeline_postproc =>
        /\ \A b \in AllBatches : u.calls[b] = (IF b < drv.started THEN 1 ELSE 0)
        /\ u.err = "none"

C7_Witness ==
    /\ drv.pc = "done" /\ u.pipeline_postproc /\ u.detached = 1
    /\ drv.forwarded = NumBatches
    /\ \A b \in 0 .. (NumBatches - 1) : u.calls[b] = 1
    /\ \E e \in u.fwdlog : e.module = "m1" /\ e.input = NumBatches - 1
    /\ \E e \in u.fwdlog : e.module = "m2" /\ e.input = NumBatches - 1

\* C8: invoking a PipelinedPostproc whose current context holds a result
\* under its fqn returns that result and changes nothing; otherwise the
\* wrapped module runs once, its result is returned and stored in the current
\* context under the fqn (nothing else changes), and a second invocation
\* returns the same result without running the module again.
C8_PostprocCache ==
    \A fqn \in Keys(u.postproc_context) : \A k \in {0, 1} :
        LET s == Begin(u)
            cid == s.postproc_context[fqn]
            cached == Ctx(s, cid).postproc_fwd_results
            r == PipelinedPostproc_forward(s, fqn, RawBatch(k))
            again == PipelinedPostproc_forward(r.s, fqn, RawBatch(1 - k))
        IN  IF fqn \in Keys(cached)
            THEN r.val = cached[fqn] /\ r.s = s
            ELSE /\ r.val = PostprocModule(RawBatch(k))
                 /\ r.s = [SetCtx(s, cid, [Ctx(s, cid) EXCEPT
                                 !.postproc_fwd_results = Put(cached, fqn, r.val)])
                             EXCEPT !.calls[k] = @ + 1]
                 /\ again.val = r.val /\ again.s = r.s

\* a wrapper that hit its cache in the forward of batch 0 and whose current
\* context holds no result yet
C8_Witness ==
    /\ "pp" \in Keys(u.postproc_context)
    /\ "pp" \notin Keys(Ctx(u, u.postproc_context["pp"]).postproc_fwd_results)
    /\ u.calls[0] = 1
    /\ \E e \in u.fwdlog : e.module = "m1" /\ e.input = 0

\* C9: detach() never fails and leaves the window, every context's maps,
\* _next_index and the exhausting flag as they were; on an initialized util
\* it removes the one forward hook, restores the original forwards, input
\* dist forwards and postprocs and clears initialized; on an uninitialized
\* util it changes nothing.
C9_DetachFrame ==
    LET s == Begin(u)
        d == detach(s)
    IN  /\ Ok(d)
        /\ d.contexts = s.contexts /\ d.heap = s.heap
        /\ d.next_index = s.next_index /\ d.exhausting_mode = s.exhausting_mode
        /\ ~d.initialized
        /\ [d EXCEPT !.hooks = s.hooks, !.forward = s.forward,
                     !.kjt_dist_forward = s.kjt_dist_forward,
                     !.model_postproc = s.model_postproc,
                     !.initialized = s.initialized, !.detached = s.detached] = s
        /\ IF s.initialized
           THEN /\ d.hooks = s.hooks - 1
                /\ \A m \in ShardedModules :
                      d.forward[m] = OriginalForward /\ d.kjt_dist_forward[m] = "original"
                /\ \A f \in PostprocFqns : d.model_postproc[f] = "original"
           ELSE d = s

\* a detached util that still holds a waited, unconsumed batch
C9_Witness ==
    /\ ~u.initialized /\ u.detached = 1 /\ u.hooks = 0
    /\ Len(u.contexts) = ExpectedContexts(u)
    /\ \A m \in ShardedModules : u.forward[m] = OriginalForward
    /\ \E i \in 1 .. Len(u.contexts) :
          Keys(Ctx(u, u.contexts[i]).input_dist_tensors_requests) # {}

\* C10: a staged run with one detach / re-attach between two iterations (u)
\* and the same run without it (ref) have the same number of contexts ever
\* created and the same window; once re-attached every intercepting forward
\* and postproc wrapper of u exists again and points at contexts[0]; each
\* window context of u has the same index and the same key sets in its maps
\* as in ref once the start slot has been waited on; and every forward was
\* served from the same context with the same data in both runs.
KeySets(c) ==
    [index |-> c.index,
     input_dist_splits_requests |-> Keys(c.input_dist_splits_requests),
     input_dist_tensors_requests |-> Keys(c.input_dist_tensors_requests),
     module_contexts |-> Keys(c.module_contexts),
     module_input_post_prefetch |-> Keys(c.module_input_post_prefetch),
     module_contexts_post_prefetch |-> Keys(c.module_contexts_post_prefetch),
     embedding_a2a_requests |-> Keys(c.embedding_a2a_requests),
     postproc_fwd_results |-> Keys(c.postproc_fwd_results)]

Waited(s) ==
    \A i \in 1 .. Len(s.contexts) :
        Len(Ctx(s, s.contexts[i]).fused_splits_awaitables) = 0

C10_DetachTransparent ==
    /\ Len(u.heap) = Len(ref.heap) /\ u.next_index = ref.next_index
    /\ u.contexts = ref.contexts
    /\ \A i \in 1 .. Len(u.contexts) :
          Ctx(u, u.contexts[i]).index = Ctx(ref, ref.contexts[i]).index
    /\ (u.initialized /\ u.detached >= 1) =>
          /\ u.pipelined_modules = ref.pipelined_modules
          /\ u.pipelined_postprocs = ref.pipelined_postprocs
          /\ \A i \in 1 .. Len(u.pipelined_modules) :
                /\ u.forward[u.pipelined_modules[i]].kind # "original"
                /\ u.forward[u.pipelined_modules[i]].context = u.contexts[1]
          /\ \A f \in Range(u.pipelined_postprocs) :
                /\ u.model_postproc[f] # "original"
                /\ u.postproc_context[f] = u.contexts[1]
    /\ (Waited(u) /\ Waited(ref)) =>
          \A i \in 1 .. Len(u.contexts) :
              KeySets(Ctx(u, u.contexts[i])) = KeySets(Ctx(ref, ref.contexts[i]))
    /\ u.fwdlog = ref.fwdlog
    /\ u.err = "none" /\ ref.err = "none"

\* the run with the detach has finished all batches after re-attaching
C10_Witness ==
    /\ drv.pc = "done" /\ u.detached = 1 /\ ref.detached = 0 /\ u.initialized
    /\ u.with_prefetch /\ u.pipeline_postproc
    /\ \E e \in u.fwdlog : e.input = NumBatches - 1 /\ e.module = "m1"

\* C11: attach followed by detach restores the model: after detach() every
\* sharded module has its original forward again, every input dist its
\* original forward, and at every fqn where a PipelinedPostproc was swapped
\* in, nested fqns included, the model tree holds the original module again.
C11_DetachRestores ==
    drv.pc = "detached" =>
        /\ \A m \in ShardedModules :
              /\ u.forward[m] = OriginalForward
              /\ u.kjt_dist_forward[m] = "original"
        /\ \A f \in Keys(u.model_postproc) : u.model_postproc[f] = "original"

\* a step that is a model forward: model(batch) followed by its forward hooks
ForwardStep ==
    /\ Running(u) /\ CanAdvance(u)
    /\ u' = Collect(model_forward(Begin(u), RawBatch(ForwardBatch(u))))
PipelinedContexts(s) ==
    {s.forward[m].context : m \in Range(s.pipelined_modules)}
\* the effect of one wait_sparse_data_dist on the start slot followed by one
\* _advance_context
HookEffect ==
    /\ u'.advanced = u.advanced + 1
    /\ u'.next_index = u.next_index + 1
    /\ Len(u'.contexts) = Len(u.contexts)
    /\ \A i \in 1 .. (Len(u.contexts) - 1) : u'.contexts[i] = u.contexts[i + 1]
    /\ u.contexts[1] \notin Range(u'.contexts)
    /\ LET start == u.contexts[Len(u.contexts)]
       IN  /\ Ctx(u, start).index \in u'.waited
           /\ Ctx(u', start).fused_splits_awaitables = << >>
           /\ Ctx(u', start).input_dist_splits_requests = EmptyDict
DetachedForward ==
    (ForwardStep /\ ~u.initialized) =>
        (u'.contexts = u.contexts /\ u'.next_index = u.next_index)

ReadyForForward(s, c) ==
    IF _with_prefetch(s)
    THEN /\ Keys(c.module_input_post_prefetch) = _pipelined_modules_fqns(s)
         /\ Keys(c.module_contexts_post_prefetch) = _pipelined_modules_fqns(s)
    ELSE /\ Keys(c.input_dist_tensors_requests) = _pipelined_modules_fqns(s)
         /\ Keys(c.module_contexts) = _pipelined_modules_fqns(s)
ReadyForPrefetch(s, c) ==
    /\ Keys(c.input_dist_tensors_requests) = _pipelined_modules_fqns(s)
    /\ Keys(c.module_contexts) = _pipelined_modules_fqns(s)
Asserting(s, cid) ==
    s.initialized /\ ~s.exhausting_mode /\ Ctx(s, cid).index >= 0

\* C13: in a staged run with context assertions enabled no context assertion
\* fails: a non-throwaway context selected for the model forward, for prefetch
\* or for the wait shows the key sets (the pending fused awaitables) that
\* phase needs, and the window has the expected length at every advance.
C13_NoAssertionFails ==
    u.WITH_CONTEXT_ASSERTIONS =>
        /\ u.err = "none"
        /\ Len(u.contexts) \in {0, ExpectedContexts(u)}
        \* the model forward is the next operation
        /\ (/\ drv.pc = "run"
            /\ drv.did_start \/ (drv.started = NumBatches /\ u.exhausting_mode)
            /\ ~u.with_prefetch \/ drv.did_prefetch \/ drv.forwarded + 1 >= NumBatches
            /\ Asserting(u, u.contexts[1]))
           => ReadyForForward(u, Ctx(u, u.contexts[1]))
        \* prefetch is the next operation
        /\ (/\ drv.pc = "prefetch" \/ (drv.pc = "run" /\ u.with_prefetch
                                         /\ ~drv.did_prefetch /\ u.initialized
                                         /\ drv.prefetched < drv.started
                                         /\ drv.prefetched = drv.forwarded + 1)
            /\ Asserting(u, u.contexts[2]))
           => ReadyForPrefetch(u, Ctx(u, u.contexts[2]))
        \* the wait of the fill callback is the next operation
        /\ (/\ drv.pc = "fillcb"
            /\ Asserting(u, u.contexts[Len(u.contexts)])
            /\ Len(u.pipelined_modules) > 0)
           => Len(Ctx(u, u.contexts[Len(u.contexts)]).fused_splits_awaitables) > 0
C13_Witness ==
    /\ u.WITH_CONTEXT_ASSERTIONS /\ u.with_prefetch /\ u.exhausting_mode
    /\ drv.pc = "done" /\ u.detached = 1 /\ u.err = "none"
    /\ Len(u.pipelined_modules) = 3

AllYielded == [i \in 1 .. NumBatches |-> YieldedBatch(i - 1)]
IsPrefix(a, b) == Len(a) <= Len(b) /\ \A i \in 1 .. Len(a) : a[i] = b[i]
OneConsumer == Len(dlt.callers) = 1 /\ dlt.stopper = "absent"

\* C14: one producer and one consumer, no stop(): what get_next_batch has
\* returned is at every moment a prefix of what the iterator yields (in order,
\* nothing lost, nothing twice), None is returned only after every batch was
\* returned, and under fair scheduling every batch is eventually returned.
C14_HandOff ==
    /\ [](OneConsumer =>
            /\ IsPrefix(dlt.callers[1].got, AllYielded)
            /\ ~dlt.callers[1].early_none
            /\ ~dlt.overwritten
            /\ (dlt.callers[1].pc = "read" /\ dlt.buffered = NoBatch)
                  => dlt.callers[1].got = AllYielded)
    /\ OneConsumer ~> (dlt.callers[1].got = AllYielded)
C14_Witness ==
    /\ OneConsumer
    /\ dlt.callers[1].got = AllYielded
    /\ dlt.run.pc = "done"

Returned(d, c) == Len(d.callers[c].got)
\* batches a caller has taken out of the buffer: returned ones and the one a
\* call in progress holds
Taken(d, c) ==
    Returned(d, c) + (IF d.callers[c].pc \in {"clear_filled", "set_empty", "return"}
                      THEN 1 ELSE 0)
SingleConsumer == Len(dlt.callers) = 1

\* C15 as stated: with one consumer, stop() included, the producer never
\* writes over a batch that was not consumed, and the iterator is at most
\* one batch ahead of what get_next_batch has returned.
C15_Original ==
    SingleConsumer =>
        /\ ~dlt.overwritten
        /\ dlt.dataloader_iter - Returned(dlt, 1) <= 1

\* C15, amended: the iterator is at most one batch ahead of what the consumer
\* has taken out of the buffer, hence at most two ahead of what has been
\* returned while a get_next_batch call holding a batch has not returned yet.
C15_OneSlot ==
    SingleConsumer =>
        /\ ~dlt.overwritten
        /\ dlt.run.pc = "copy" => dlt.buffered = NoBatch
        /\ dlt.dataloader_iter - Taken(dlt, 1) <= 1
        /\ dlt.dataloader_iter - Returned(dlt, 1) <= 2
C15_Witness ==
    /\ SingleConsumer /\ dlt.stopper = "done"
    /\ dlt.buffered # NoBatch /\ dlt.run.pc = "done"
    /\ dlt.dataloader_iter = 2 /\ Returned(dlt, 1) = 1

TwoConsumers == Len(dlt.callers) = 2 /\ dlt.stopper = "absent"
Received(c) == {dlt.callers[c].got[i] : i \in 1 .. Len(dlt.callers[c].got)}

\* C16: with two threads calling get_next_batch the hand-off is not safe: the
\* same batch can be returned to both callers and a caller can get None before
\* the iterator is exhausted (the witness).  What two callers cannot break:
\* a caller never receives the same batch twice, receives batches in iterator
\* order, and receives only batches the iterator has yielded.
C16_TwoConsumersUnsafe ==
    TwoConsumers =>
        /\ \A c \in 1 .. 2 :
              /\ \A i, j \in 1 .. Len(dlt.callers[c].got) :
                    i < j => dlt.callers[c].got[i].batch < dlt.callers[c].got[j].batch
              /\ \A b \in Received(c) : b.batch < dlt.dataloader_iter
C16_Witness ==
    /\ TwoConsumers
    /\ Received(1) \cap Received(2) # {}
    /\ \E c \in 1 .. 2 : dlt.callers[c].early_none


\* ---- the graph rewriter
\* the call site of sharded module m in the traced graph
SiteOf(s, m) == CHOOSE i \in 1 .. Len(s.graph) : s.graph[i].target = m
CalledModules(s) == {s.graph[i].target : i \in 1 .. Len(s.graph)}
\* an argument built solely from placeholder fields, constants and auxiliary
\* modules without trainable parameters whose own inputs are built the same way
RECURSIVE BuiltFromInputs(_)
BuiltFromInputs(arg) ==
    IF arg.op = "placeholder" THEN TRUE
    ELSE IF arg.op \in {"getattr", "getitem", "get"} THEN BuiltFromInputs(arg.of)
    ELSE IF arg.op = "const"
    THEN arg.type = "scalar"
           \/ \A i \in 1 .. Len(arg.value) : BuiltFromInputs(arg.value[i])
    ELSE IF arg.op = "call_module"
    THEN /\ arg.target \notin TrainableModules
         /\ \A i \in 1 .. Len(arg.args) : BuiltFromInputs(arg.args[i])
    ELSE FALSE
EligibleSite(node) == \A i \in 1 .. Len(node.args) : BuiltFromInputs(node.args[i])
\* the number of resolved arguments of the i-th call site when the loop of
\* _rewrite_model, started from s, reaches it
NumFound(s, i) ==
    get_node_args(rewrite_loop([s EXCEPT !.pipelined_modules = << >>,
                                         !.original_forwards = << >>,
                                         !.pipelined_postprocs = << >>,
                                         !.non_pipelined_sharded_modules = << >>],
                               SubSeq(s.graph, 1, i - 1), s.contexts[1]),
                  s.graph[i], FALSE, s.contexts[1]).num_found
Occurrences(seq, x) == Cardinality({i \in 1 .. Len(seq) : seq[i] = x})
\* m is reported pipelined: the intercepting forward is installed and m is
\* appended to the pipelined modules
ReportedPipelined(s, m) ==
    /\ s.forward[m] # OriginalForward
    /\ s.forward[m].kind = PipelinedForwardType(s)
    /\ s.forward[m].name = m
    /\ Occurrences(s.pipelined_modules, m) = 1
NotPipelined(s, m) ==
    /\ s.forward[m] = OriginalForward
    /\ m \notin Range(s.pipelined_modules)
PipelinedWhenAllFound(sites) ==
    RewriteModel =>
        \A i \in 1 .. Len(u.graph) :
            (u.graph[i] \in sites /\ EligibleSite(u.graph[i])) =>
                IF NumFound(u, i) = Len(u.graph[i].args)
                THEN ReportedPipelined(u', u.graph[i].target)
                ELSE NotPipelined(u', u.graph[i].target)
AllSites == {CallModule(m, a) : m \in {"m1", "m2"}, a \in ArgLists \cup OtherArgLists}
SitesWithArguments == {n \in AllSites : Len(n.args) > 0}

\* C17 as stated: every call site of a sharded module whose arguments are all
\* built from placeholder fields, constants and parameter-free auxiliary
\* modules is reported pipelined exactly when the number of resolved arguments
\* equals the number of arguments of the call site.
C17_Original == [][PipelinedWhenAllFound(AllSites)]_vars
\* C17: every call site of a sharded module that has at least one argument
\* and whose arguments are all built from placeholder fields, constants and
\* parameter-free auxiliary modules is reported pipelined (intercepting
\* forward of the configured type installed, module appended once to the
\* pipelined modules) exactly when the number of resolved arguments equals
\* the number of arguments of the call site; otherwise its forward stays the
\* original.
C17_ResolutionComplete == [][PipelinedWhenAllFound(SitesWithArguments)]_vars
\* rewritten: one eligible call site through a postproc is pipelined, and
\* another eligible call site with arguments is left with its original forward
C17_Witness ==
    /\ drv.pc = "attached"
    /\ \E m \in CalledModules(u) :
          /\ EligibleSite(u.graph[SiteOf(u, m)])
          /\ ReportedPipelined(u, m)
          /\ \E a \in Range(u.graph[SiteOf(u, m)].args) : a.op = "call_module"
    /\ \E m \in CalledModules(u) :
          /\ EligibleSite(u.graph[SiteOf(u, m)])
          /\ Len(u.graph[SiteOf(u, m)].args) > 0
          /\ NotPipelined(u, m)

\* C18: the rewriter drops no sharded module: after _rewrite_model every
\* sharded module called in the traced graph, one called without arguments
\* included, is either among the pipelined modules or named in the list of
\* non-pipelined sharded modules, and never in both.
C18_NoModuleDropped ==
    drv.pc = "attached" =>
        \A m \in CalledModules(u) :
            (m \in Range(u.pipelined_modules))
                # (m \in Range(u.non_pipelined_sharded_modules))

\* an argument that depends on a module with trainable parameters or on a
\* node that cannot be resolved
RECURSIVE DependsOnUnresolved(_)
DependsOnUnresolved(arg) ==
    IF arg.op = "call_function" THEN TRUE
    ELSE IF arg.op \in {"getattr", "getitem", "get"} THEN DependsOnUnresolved(arg.of)
    ELSE IF arg.op = "const"
    THEN /\ arg.type # "scalar"
         /\ \E i \in 1 .. Len(arg.value) : DependsOnUnresolved(arg.value[i])
    ELSE IF arg.op = "call_module"
    THEN \/ arg.target \in TrainableModules
         \/ \E i \in 1 .. Len(arg.args) : DependsOnUnresolved(arg.args[i])
    ELSE FALSE
FailingSite(node) == \E i \in 1 .. Len(node.args) : DependsOnUnresolved(node.args[i])
\* the i-th call site is pipelined when it is the only one rewritten
PipelinedAlone(s, i) ==
    ReportedPipelined(_rewrite_model([s EXCEPT !.graph = << s.graph[i] >>],
                                     s.contexts[1]),
                      s.graph[i].target)
RecoveredLocally(sites) ==
    RewriteModel =>
        \A i \in 1 .. Len(u.graph) :
            (u.graph[i] \in sites /\ FailingSite(u.graph[i])) =>
                /\ u'.err = "none"
                /\ NotPipelined(u', u.graph[i].target)
                /\ Len(u'.original_forwards) = Len(u'.pipelined_modules)
                /\ Occurrences(u'.non_pipelined_sharded_modules, u.graph[i].target) = 1
                /\ \A j \in 1 .. Len(u.graph) :
                      (j # i /\ PipelinedAlone(u, j)) =>
                          ReportedPipelined(u', u.graph[j].target)

\* C19: a resolution failure is recovered locally: when an argument of a
\* call site of a sharded module depends on a module with trainable
\* parameters or on a node that cannot be resolved, _rewrite_model raises
\* nothing, leaves the module's forward the original one with nothing saved
\* among the original forwards, names the module in the non-pipelined list,
\* and still pipelines the other eligible sharded modules.
C19_RecoveredLocally == [][RecoveredLocally(AllSites)]_vars

\* the ArgInfo of a constant argument: a scalar or None is embedded as a step
\* returning it, a list or dict as a step over as many elements, a constant
\* element kept as it is and a placeholder field replaced by its ArgInfo
IsConstant(arg) == arg.op = "const"
IsPlaceholderField(arg) ==
    \/ arg.op = "placeholder"
    \/ arg.op \in {"getattr", "getitem", "get"} /\ arg.of.op = "placeholder"
EmbedsConstant(s, arg_info, arg) ==
    /\ Len(arg_info) = 1
    /\ IF arg.type = "scalar"
       THEN /\ arg_info[1] = from_scalar(arg.value)
            /\ process_steps(s, arg_info, RawBatch(0)).val = arg.value
       ELSE /\ arg_info[1].kind = arg.type
            /\ Len(arg_info[1].value) = Len(arg.value)
            /\ \A i \in 1 .. Len(arg.value) :
                  /\ IsConstant(arg.value[i]) => arg_info[1].value[i] = arg.value[i]
                  /\ IsPlaceholderField(arg.value[i]) =>
                        arg_info[1].value[i].op = "arginfo"
\* the constants that are resolved whatever pipeline_postproc is
ConstantsResolved(always) ==
    drv.pc = "attached" =>
        \A m \in CalledModules(u) :
            LET node == u.graph[SiteOf(u, m)]
            IN  /\ ( /\ Len(node.args) > 0
                     /\ \A k \in 1 .. Len(node.args) :
                           /\ IsConstant(node.args[k])
                           /\ u.pipeline_postproc \/ node.args[k] \in always )
                       => ReportedPipelined(u, m)
                /\ ReportedPipelined(u, m) =>
                      \A k \in 1 .. Len(node.args) :
                          IsConstant(node.args[k]) =>
                              EmbedsConstant(u, u.forward[m].args[k], node.args[k])
Constants ==
    {Scalar([py |-> 7]), Scalar(None)} \cup Collections(Fields)
       \cup Collections(ModuleCalls({Placeholder, CallFunction(Placeholder)}))

ServedFront ==
    \A m \in Range(u.pipelined_modules) :
        \E e \in u'.fwdlog :
            /\ e.module = m
            /\ e.ctx = Ctx(u, u.contexts[1]).index
            /\ e.mctx = Ctx(u, u.contexts[1]).index
\* a model forward in exhausting mode on a batch in flight, started (and
\* prefetched) before
DrainStep ==
    /\ ForwardStep /\ u.initialized /\ u.exhausting_mode
    /\ PipelinedContexts(u) = {u.contexts[1]}
    /\ Ctx(u, u.contexts[1]).index >= 0
    /\ ReadyForForward(u, Ctx(u, u.contexts[1]))

\* a prefetch in exhausting mode on a batch in flight, waited before
DrainPrefetch ==
    /\ Running(u) /\ u.initialized /\ u.exhausting_mode /\ u.with_prefetch
    /\ u' = Collect(prefetch(Begin(u), RawBatch(0)))
    /\ Ctx(u, u.contexts[2]).index >= 0
    /\ ReadyForPrefetch(u, Ctx(u, u.contexts[2]))

\* C21: data exhaustion is a one-way mode: once data_exhausted_callback has
\* been called the exhausting flag stays set under every later operation,
\* should_assert_context_invariants is False for every context, and a batch
\* in flight is drained: its prefetch and its forward are served and the
\* window advances with no start_sparse_data_dist.
C21_ExhaustingOneWay ==
    /\ [][u.exhausting_mode => u'.exhausting_mode]_vars
    /\ [](u.exhausting_mode =>
            \A cid \in 1 .. Len(u.heap) : ~should_assert_context_invariants(u, cid))
    /\ [][DrainStep =>
            /\ Ok(u') /\ ServedFront /\ HookEffect
            /\ u'.started = u.started]_vars
    /\ [][DrainPrefetch =>
            /\ Ok(u') /\ ReadyForForward(u', Ctx(u', u.contexts[2]))
            /\ u'.contexts = u.contexts
            /\ u'.started = u.started]_vars
\* with assertions enabled, a forward has been served and the window advanced
\* onto a context that was never started; the util was detached and
\* re-attached on the way
C21_Witness ==
    /\ u.exhausting_mode /\ u.WITH_CONTEXT_ASSERTIONS /\ u.initialized /\ Ok(u)
    /\ u.detached = 1
    /\ Ctx(u, u.contexts[1]).index \notin u.started
    /\ \E e \in u.fwdlog : e.ctx = Ctx(u, u.contexts[1]).index - 1

\* the contexts created so far, and their indices
CreatedContexts(s) == Len(s.heap)
CreatedIndices(s) == {s.heap[i].index : i \in 1 .. Len(s.heap)}
RunWithoutPrefetchDone == drv.pc = "done" /\ ~u.with_prefetch

\* C22 as stated: without prefetch, feeding the batches through start, wait
\* and forward creates exactly one Training Context per batch over the whole
\* run (3 for 3 batches).
C22_Original ==
    RunWithoutPrefetchDone => CreatedContexts(u) = NumBatches
\* C22: without prefetch, feeding the batches through start, wait and forward
\* gives every batch a Training Context of its own (3 distinct contexts for 3
\* batches receive a batch, and the forward of batch b is served from context
\* b); besides these the run creates the priming context -1 and, with the
\* advances after the last two forwards, two contexts that receive no batch.
C22_ContextCount ==
    RunWithoutPrefetchDone =>
        /\ Ok(u)
        /\ u.started = 0 .. (NumBatches - 1)
        /\ \A e \in u.fwdlog : e.ctx = e.input /\ e.mctx = e.input
        /\ \A b \in 0 .. (NumBatches - 1) : \E e \in u.fwdlog : e.input = b
        /\ CreatedIndices(u) = (-1) .. (NumBatches + 1)
        /\ CreatedContexts(u) = NumBatches + 3
C22_Witness ==
    /\ RunWithoutPrefetchDone /\ u.detached = 1
    /\ Cardinality(u.started) = NumBatches

\* a step that is prefetch(batch), and the context it works on
PrefetchStep ==
    /\ Running(u)
    /\ u' = Collect(prefetch(Begin(u), RawBatch(0)))
\* every pipelined module's entry has moved from the pre-prefetch maps of the
\* context in slot 1 to its post-prefetch maps
HandedOver ==
    LET c == Ctx(u, u.contexts[2])
        c1 == Ctx(u', u.contexts[2])
    IN  \A n \in _pipelined_modules_fqns(u) :
            /\ n \notin Keys(c1.input_dist_tensors_requests)
            /\ n \notin Keys(c1.module_contexts)
            /\ n \in Keys(c1.module_input_post_prefetch)
            /\ n \in Keys(c1.module_contexts_post_prefetch)
            /\ c1.module_input_post_prefetch[n].args = c.input_dist_tensors_requests[n].args
            /\ c1.module_contexts_post_prefetch[n] = c.module_contexts[n]
\* the context cid with its pre-prefetch maps emptied
WithoutPrePrefetch(s, cid) ==
    SetCtx(s, cid, [Ctx(s, cid) EXCEPT !.input_dist_tensors_requests = EmptyDict,
                                       !.module_contexts = EmptyDict])
\* PrefetchPipelinedForward.__call__ on context cid takes the module's two
\* post-prefetch entries, and neither reads nor writes the pre-prefetch maps
ConsumesPostPrefetch(s, name, cid) ==
    LET c == Ctx(s, cid)
        r == PrefetchPipelinedForward_call(Begin(s), name, cid, RawBatch(0))
        w == PrefetchPipelinedForward_call(Begin(WithoutPrePrefetch(s, cid)),
                                           name, cid, RawBatch(0))
    IN  /\ Ok(r) = Ok(w)
        /\ Ok(r) =>
              /\ Ctx(r, cid).module_input_post_prefetch
                    = Pop(c.module_input_post_prefetch, name)
              /\ Ctx(r, cid).module_contexts_post_prefetch
                    = Pop(c.module_contexts_post_prefetch, name)
              /\ Ctx(r, cid).input_dist_tensors_requests = c.input_dist_tensors_requests
              /\ Ctx(r, cid).module_contexts = c.module_contexts
              /\ r.fwdlog = w.fwdlog
              /\ \E e \in r.fwdlog :
                    /\ e.module = name /\ e.ctx = c.index
                    /\ e.mctx = c.module_contexts_post_prefetch[name].batch
                    /\ e.data = {BatchOf(c.module_input_post_prefetch[name].args[i]) :
                                    i \in 1 .. Len(c.module_input_post_prefetch[name].args)}

\* C23: after prefetch(batch) completes on the context in window slot 1,
\* every pipelined module's entry is gone from input_dist_tensors_requests
\* and module_contexts of that context and present in its
\* module_input_post_prefetch and module_contexts_post_prefetch; the prefetch
\* forward variant consumes exactly these post-prefetch entries and never
\* reads the pre-prefetch maps.
C23_PrefetchHandOver ==
    /\ [][(PrefetchStep /\ Ok(u')) => HandedOver]_vars
    /\ [](u.with_prefetch =>
            \A name \in ShardedModules : \A cid \in 1 .. Len(u.heap) :
                ConsumesPostPrefetch(u, name, cid))
\* a context that was prefetched and whose forward was then served, while the
\* next context in the window holds the prefetched entries of every module
C23_Witness ==
    /\ u.with_prefetch /\ u.initialized /\ Ok(u)
    /\ \E e \in u.fwdlog : e.ctx \in u.prefetched
    /\ \E cid \in Range(u.contexts) :
          /\ Keys(Ctx(u, cid).module_input_post_prefetch) = ShardedModules
          /\ Keys(Ctx(u, cid).input_dist_tensors_requests) = {}

\* the number of priming contexts of a util that has been initialized
PrimingContexts(s) == IF _with_prefetch(s) THEN 2 ELSE 1
WindowIndex(s, i) == Ctx(s, s.contexts[i]).index

\* C24: contexts carry the indices -1 (after -2 with prefetch), 0, 1, 2, ...
\* in creation order, so each index is used once and only the priming
\* contexts are negative, also across detach and re-attach; the indices in
\* the window are consecutive from front to back and _next_index is one more
\* than the index of the last context.
C24_ContextIdentity ==
    /\ \A i \in 1 .. Len(u.heap) : u.heap[i].index = i - 1 - PrimingContexts(u)
    /\ \A i \in 1 .. (Len(u.contexts) - 1) : WindowIndex(u, i + 1) = WindowIndex(u, i) + 1
    /\ \A i, j \in 1 .. Len(u.contexts) : i # j => u.contexts[i] # u.contexts[j]
    /\ u.next_index = IF Len(u.contexts) = 0 THEN 0
                      ELSE WindowIndex(u, Len(u.contexts)) + 1
\* re-attached after a detach, with prefetch, the window advanced twice
C24_Witness ==
    /\ u.with_prefetch /\ u.detached = 1 /\ u.initialized /\ Ok(u)
    /\ u.advanced >= 2
    /\ Len(u.heap) = 5
    /\ WindowIndex(u, 1) = 0

\* the state of the util with nothing cached in any context
NothingCached(s) ==
    [s EXCEPT !.heap = [i \in 1 .. Len(s.heap) |->
                           [s.heap[i] EXCEPT !.postproc_fwd_results = EmptyDict]]]
RECURSIVE HasPostproc(_)
HasPostproc(steps) ==
    \E i \in 1 .. Len(steps) :
        \/ steps[i].kind = "postproc"
        \/ /\ steps[i].kind \in {"list", "dict"}
           /\ \E k \in 1 .. Len(steps[i].value) :
                 /\ steps[i].value[k].op = "arginfo"
                 /\ HasPostproc(steps[i].value[k].steps)
\* processing steps on x is processing all steps but the last on x and the
\* last step on the outcome
LeftToRight(s, steps, x) ==
    Len(steps) >= 2 =>
        LET front == process_steps(s, SubSeq(steps, 1, Len(steps) - 1), x)
        IN  process_steps(s, steps, x)
              = process_steps(front.s, << steps[Len(steps)] >>, front.val)
\* a list or dict step evaluates each nested ArgInfo on x and hands out any
\* other element as it is
CollectionStep(s, step, x) ==
    step.kind \in {"list", "dict"} =>
        LET out == process_steps(s, << step >>, x).val
        IN  /\ Len(out) = Len(step.value)
            /\ \A k \in 1 .. Len(step.value) :
                  IF step.value[k].op = "arginfo"
                  THEN \E t \in {s, process_steps(s, << step >>, x).s} :
                          out[k] = process_steps(t, step.value[k].steps, x).val
                  ELSE out[k] = step.value[k]
ArgInfoLaws(Independent(_)) ==
    /\ (drv.pc = "arginfo" =>
            \A b \in Batches :
                LET x == RawBatch(b)
                    r == process_steps(u, drv.steps, x)
                IN  /\ drv.steps = << >> => (r.val = None /\ r.s = u)
                    /\ LeftToRight(u, drv.steps, x)
                    /\ \A i \in 1 .. Len(drv.steps) : CollectionStep(u, drv.steps[i], x)
                    \* same input, same result
                    /\ process_steps(r.s, drv.steps, x).val = r.val
                    /\ Independent(drv.steps) =>
                          r.val = process_steps(NothingCached(u), drv.steps, x).val
                    /\ ~HasPostproc(drv.steps) => r.s = u)
    /\ (drv.pc = "arginfo" =>
            \A step \in Steps :
                /\ Len(add_step(drv.steps, step)) = Len(drv.steps) + 1
                /\ Head(add_step(drv.steps, step)) = step
                /\ Tail(add_step(drv.steps, step)) = drv.steps
                /\ Len(append_step(drv.steps, step)) = Len(drv.steps) + 1
                /\ append_step(drv.steps, step)[Len(drv.steps) + 1] = step
                /\ SubSeq(append_step(drv.steps, step), 1, Len(drv.steps)) = drv.steps)

\* C25 as stated: process_steps composes its steps from left to right, yields
\* None for an empty list, passes list / dict elements that are no ArgInfo
\* through, and for every step list its result depends only on the list and
\* the input.
C25_Original == ArgInfoLaws(LAMBDA steps : TRUE)
\* C25: process_steps composes its steps from left to right, yields None for
\* an empty list, add_step prepends and append_step appends, list / dict
\* steps evaluate nested ArgInfos on the same input and pass other elements
\* through, and the same input gives the same result again; for a step list without a postproc step the result
\* depends only on the list and the input.
C25_ProcessSteps == ArgInfoLaws(LAMBDA steps : ~HasPostproc(steps))
\* a descriptor of getattr, postproc and a list step has been processed on
\* two batches
C25_Witness ==
    /\ drv.pc = "arginfo" /\ Len(drv.steps) = 3
    /\ drv.steps[1].kind = "get_attr" /\ drv.steps[2].kind = "postproc"
    /\ drv.steps[3].kind = "list"
    /\ Cardinality(drv.processed) >= 2

\* a step that is load_prefetch()
LoadPrefetchStep ==
    /\ Running(u)
    /\ u' = Collect(load_prefetch(Begin(u)))

\* C26: load_prefetch() is a no-op: in any state it changes no context and no
\* map of a context, no context reference of a forward or a postproc wrapper,
\* and not the window.
C26_LoadPrefetchNoOp ==
    /\ [](LET r == load_prefetch(Begin(u))
          IN  /\ r.heap = u.heap
              /\ r.contexts = u.contexts /\ r.next_index = u.next_index
              /\ r.forward = u.forward
              /\ r.postproc_context = u.postproc_context
              /\ Ok(r))
    /\ [][LoadPrefetchStep => u' = u]_vars
\* a state with a prefetched context in the window, its post-prefetch maps
\* filled, next to a context that is waited but not prefetched
C26_Witness ==
    /\ u.with_prefetch /\ u.initialized /\ Ok(u)
    /\ \E i \in 1 .. Len(u.contexts) :
          /\ WindowIndex(u, i) \in u.prefetched
          /\ Keys(Ctx(u, u.contexts[i]).module_input_post_prefetch) = ShardedModules
    /\ \E i \in 1 .. Len(u.contexts) :
          Keys(Ctx(u, u.contexts[i]).input_dist_tensors_requests) = ShardedModules


\* The modules below the GraphModule are named by the positions of the
\* children that lead to them.
ModulePaths(module) ==
    {<< i >> : i \in DOMAIN module.children}
        \cup UNION {{<< i, j >> : j \in DOMAIN module.children[i].children} :
                        i \in DOMAIN module.children}
RECURSIVE ModuleAt(_, _)
ModuleAt(module, path) ==
    IF path = << >> THEN module
    ELSE ModuleAt(module.children[Head(path)], Tail(path))
ParentPath(path) == SubSeq(path, 1, Len(path) - 1)
RECURSIVE ContainsSharded(_)
ContainsSharded(module) ==
    \E i \in DOMAIN module.children :
        \/ module.children[i].sharded
        \/ ContainsSharded(module.children[i])
IsOrContainsSharded(module) == module.sharded \/ ContainsSharded(module)
\* the non-pipelined remainder: the children, free of sharded modules, of a
\* module that contains one
Remainder(module, path) ==
    /\ ContainsSharded(ModuleAt(module, ParentPath(path)))
    /\ ~IsOrContainsSharded(ModuleAt(module, path))
FailsToCompile(module, path) ==
    Remainder(module, path) /\ ~ModuleAt(module, path).scriptable
LaterSiblings(module, path) ==
    {q \in ModulePaths(module) :
         /\ ParentPath(q) = ParentPath(path)
         /\ q[Len(q)] > path[Len(path)]}

\* C27: once _jit_modules has run on the GraphModule, no module that is or
\* contains a ShardedModule is compiled; with optional = True nothing is
\* raised, every child of the remainder that compiles is swapped in, whatever
\* failed before it, and one that fails is left as it was; with
\* optional = False an exception reaches the caller exactly when a child of
\* the remainder fails, and the children after the failing one are not tried.
C27_JitBestEffort ==
    drv.pc = "compiled" =>
        /\ \A path \in ModulePaths(drv.graph_model) :
               IsOrContainsSharded(ModuleAt(drv.graph_model, path))
                   => ~ModuleAt(drv.module, path).scripted
        /\ drv.optional =>
               /\ drv.err = "none"
               /\ \A path \in ModulePaths(drv.graph_model) :
                      Remainder(drv.graph_model, path) =>
                          IF ModuleAt(drv.graph_model, path).scriptable
                          THEN ModuleAt(drv.module, path).scripted
                          ELSE ModuleAt(drv.module, path)
                                   = ModuleAt(drv.graph_model, path)
        /\ ~drv.optional =>
               /\ drv.err = "Exception"
                      <=> \E path \in ModulePaths(drv.graph_model) :
                              FailsToCompile(drv.graph_model, path)
               /\ drv.err = "Exception" =>
                      \E path \in ModulePaths(drv.graph_model) :
                          /\ FailsToCompile(drv.graph_model, path)
                          /\ \A q \in LaterSiblings(drv.graph_model, path) :
                                 ~ModuleAt(drv.module, q).scripted

\* a child of the remainder fails to compile, nothing is raised, and a child
\* after it is compiled and swapped in next to a sharded module left alone
C27_Witness ==
    /\ drv.pc = "compiled"
    /\ drv.optional
    /\ drv.err = "none"
    /\ \E path \in ModulePaths(drv.graph_model) :
           /\ FailsToCompile(drv.graph_model, path)
           /\ ModuleAt(drv.module, path) = ModuleAt(drv.graph_model, path)
           /\ \E q \in LaterSiblings(drv.graph_model, path) :
                  /\ Remainder(drv.graph_model, q)
                  /\ ModuleAt(drv.module, q).scripted
    /\ \E path \in ModulePaths(drv.graph_model) :
           /\ ModuleAt(drv.graph_model, path).sharded
           /\ ModuleAt(drv.module, path) = ModuleAt(drv.graph_model, path)


\* what the constructor does not support
Unsupported(config) ==
    \/ config.compute_mode \in {"FUSED_TASKS_COMPUTATION",
                                "FUSED_TASKS_AND_STATES_COMPUTATION"}
    \/ config.fused_update_limit > 0
    \/ \E i \in DOMAIN config.tasks :
           \/ config.tasks[i].session_metric_def = None
           \/ config.tasks[i].session_metric_def.top_threshold = None

\* C28: constructing a PrecisionSessionMetric with a fused compute mode, with
\* fused_update_limit > 0 or with a task without session metric definition
\* or top threshold raises RecMetricException, the base constructor has not
\* been called and there is no metric; whatever reaches the base constructor
\* is the configuration as given.
C28_RejectedAtConstruction ==
    drv.pc = "constructed" =>
        /\ Unsupported(drv.config) =>
               /\ drv.result.err = "RecMetricException"
               /\ drv.result.base = None
               /\ drv.result.metric = None
        /\ drv.result.base # None => drv.result.base = drv.config

\* a configuration whose only fault is the missing top threshold of its
\* second task has been rejected
C28_Witness ==
    /\ drv.pc = "constructed"
    /\ drv.config.compute_mode = "UNFUSED_TASKS_COMPUTATION"
    /\ drv.config.fused_update_limit = 0
    /\ Len(drv.config.tasks) = 2
    /\ drv.config.tasks[1].session_metric_def # None
    /\ drv.config.tasks[1].session_metric_def.top_threshold # None
    /\ drv.config.tasks[2].session_metric_def # None
    /\ drv.config.tasks[2].session_metric_def.top_threshold = None
    /\ drv.result.err = "RecMetricException"
    /\ drv.result.message = "Please, specify the top threshold"
    /\ drv.result.metric = None


\* The input positions of feature f at batch position b, those of them whose
\* id falls into the block of bucket t, and the place of a (bucket, feature,
\* batch position) group in the output.
NumFeatures == Size(drv.kjt.keys)
BatchSize == Size(drv.kjt.lengths) \div NumFeatures
InputPositions(f, b) ==
    {i \in DOMAIN drv.kjt.values :
         /\ accumulate(drv.kjt.lengths)[f * BatchSize + b] <= i
         /\ i < accumulate(drv.kjt.lengths)[f * BatchSize + b + 1]}
Routed(t, f, b) ==
    {i \in InputPositions(f, b) : drv.kjt.values[i] \div drv.block_sizes[f] = t}
GroupSlot(t, f, b) == t * Size(drv.kjt.lengths) + f * BatchSize + b
GroupStart(t, f, b) == accumulate(drv.bucketized.lengths)[GroupSlot(t, f, b)]
Groups ==
    (0 .. drv.trainers_size - 1) \X (0 .. NumFeatures - 1) \X (0 .. BatchSize - 1)
AllIdsInRange ==
    \A g \in (0 .. NumFeatures - 1) \X (0 .. BatchSize - 1) :
        \A i \in InputPositions(g[1], g[2]) :
            drv.kjt.values[i] < drv.block_sizes[g[1]] * drv.trainers_size

\* C29: in the bucketized batch the lengths list, bucket by bucket, for every
\* feature and batch position the number of its ids with id div block_size
\* equal to the bucket; the ids of a group stand in their input order as
\* id mod block_size, with their weights; the keys are the input keys once
\* per bucket; and when every id is below block_size * num_buckets the
\* lengths sum to the number of input ids.
C29_BlockBucketize ==
    drv.pc = "bucketized" =>
        /\ Size(drv.bucketized.lengths) = drv.trainers_size * Size(drv.kjt.lengths)
        /\ \A g \in Groups :
               /\ drv.bucketized.lengths[GroupSlot(g[1], g[2], g[3])]
                      = Cardinality(Routed(g[1], g[2], g[3]))
               /\ \A i \in Routed(g[1], g[2], g[3]) :
                      LET at == GroupStart(g[1], g[2], g[3])
                                    + Cardinality({j \in Routed(g[1], g[2], g[3]) :
                                                       j < i})
                      IN  /\ drv.bucketized.values[at]
                                 = drv.kjt.values[i] % drv.block_sizes[g[2]]
                          /\ drv.kjt.weighted =>
                                 /\ drv.bucketized.weighted
                                 /\ drv.bucketized.weights[at] = drv.kjt.weights[i]
        /\ Size(drv.bucketized.keys) = drv.trainers_size * NumFeatures
        /\ \A t \in 0 .. drv.trainers_size - 1, f \in 0 .. NumFeatures - 1 :
               drv.bucketized.keys[t * NumFeatures + f] = drv.kjt.keys[f]
        /\ AllIdsInRange =>
               accumulate_to(drv.bucketized.lengths, Size(drv.bucketized.lengths))
                   = Size(drv.kjt.values)

\* a weighted batch of two features over two buckets: one group holds two
\* ids whose local ids stand in input order, not sorted, another bucket got
\* an id of the other feature, and no id is out of range
C29_Witness ==
    /\ drv.pc = "bucketized"
    /\ drv.kjt.weighted
    /\ drv.trainers_size = 2
    /\ NumFeatures = 2
    /\ drv.block_sizes[0] # drv.block_sizes[1]
    /\ AllIdsInRange
    /\ \E g \in Groups :
           /\ Cardinality(Routed(g[1], g[2], g[3])) = 2
           /\ drv.bucketized.values[GroupStart(g[1], g[2], g[3])]
                  > drv.bucketized.values[GroupStart(g[1], g[2], g[3]) + 1]
           /\ \E h \in Groups :
                  /\ h[1] # g[1]
                  /\ h[2] # g[2]
                  /\ Routed(h[1], h[2], h[3]) # {}


\* The start phase of the staged run, and what the wrapper of pp returns
\* when the model forward of the oldest batch in flight invokes it.
StartStep == FillStart \/ RunStart
WrappedForward == RunForward /\ u.model_postproc["pp"] = "wrapped"
CachedFor(s, cid, b) ==
    /\ "pp" \in Keys(Ctx(s, cid).postproc_fwd_results)
    /\ Ctx(s, cid).postproc_fwd_results["pp"] = PostprocModule(RawBatch(b))

\* C30: in a staged run with postproc pipelining, the wrapper of pp invoked
\* in the model forward of batch N has the context of batch N as its current
\* one and returns, without running the module, the result the start phase of
\* batch N stored there, computed from batch N; every result held by a
\* context was computed from that context's batch; and the start phase of a
\* batch stores its result in the context of that batch and leaves the
\* results of every other context as they are.
C30_PostprocIsolation ==
    /\ [][WrappedForward =>
            LET s == Begin(u)
                cid == s.postproc_context["pp"]
                r == PipelinedPostproc_forward(s, "pp", RawBatch(drv.forwarded))
            IN  /\ Ctx(s, cid).index = drv.forwarded
                /\ CachedFor(s, cid, drv.forwarded)
                /\ r.val = PostprocModule(RawBatch(drv.forwarded))
                /\ r.s = s
                /\ drv.forwarded + 1 < drv.started =>
                       \E c \in DOMAIN s.heap :
                           c # cid /\ CachedFor(s, c, drv.forwarded + 1)]_vars
    /\ [](u.pipeline_postproc =>
            \A c \in DOMAIN u.heap :
                \A fqn \in Keys(u.heap[c].postproc_fwd_results) :
                    BatchOf(u.heap[c].postproc_fwd_results[fqn]) = u.heap[c].index)
    /\ [][StartStep /\ u.pipeline_postproc =>
            /\ \E c \in DOMAIN u'.heap :
                   /\ u'.heap[c].index = drv.started
                   /\ CachedFor(u', c, drv.started)
            /\ \A c \in DOMAIN u.heap :
                   u.heap[c].index # drv.started =>
                       \/ u'.heap[c].postproc_fwd_results
                              = u.heap[c].postproc_fwd_results
                       \/ /\ c \notin Range(u'.contexts)
                          /\ u'.heap[c].postproc_fwd_results = EmptyDict]_vars

\* the model forward of batch 1 is about to run on the wrapper while the
\* result of batch 2, started before it, waits in another context
C30_Witness ==
    /\ drv.pc = "run" /\ drv.did_start /\ drv.forwarded = 1 /\ drv.started = 3
    /\ u.pipeline_postproc /\ u.model_postproc["pp"] = "wrapped"
    /\ Ctx(u, u.postproc_context["pp"]).index = 1
    /\ CachedFor(u, u.postproc_context["pp"], 1)
    /\ \E c \in DOMAIN u.heap :
           c # u.postproc_context["pp"] /\ CachedFor(u, c, 2)
    /\ u.calls[1] = 1 /\ u.calls[2] = 1

\* The context of the batch being started, the fused awaitables a start left
\* in it, and how often a pipelined module is named by them.
StartedContext(s, b) == CHOOSE c \in DOMAIN s.heap : s.heap[c].index = b
ProcessGroups(s) == {PgOf(name) : name \in Range(s.pipelined_modules)}
NamedBy(fused, name) ==
    Cardinality({i \in DOMAIN fused : name \in Range(fused[i].names)})
\* rounds _start_data_dist calls have left their awaitables in the context:
\* round by round, one awaitable per process group, naming the pipelined
\* modules of that group, each with the request issued for the batch
FusedRounds(s, b, rounds) ==
    LET fused == Ctx(s, StartedContext(s, b)).fused_splits_awaitables
    IN  /\ Len(fused) = rounds * Cardinality(ProcessGroups(s))
        /\ \A name \in Range(s.pipelined_modules) :
               NamedBy(fused, name) = rounds
        /\ \A i \in DOMAIN fused :
               /\ Range(fused[i].names)
                      = {n \in Range(s.pipelined_modules) : PgOf(n) = fused[i].pg}
               /\ \A k \in DOMAIN fused[i].names :
                      fused[i].requests[k].ctx
                          = create_context(fused[i].names[k], RawBatch(b))
StartReturned(attaching, attached) ==
    StartStep =>
        /\ Ok(u')
        /\ u'.pipelined_modules # << >>
        /\ FusedRounds(u', drv.started,
                       IF u.initialized THEN attached ELSE attaching)

StartOnInitialized == (StartSparseDataDist \/ StartMalformed) /\ u.initialized

\* C32: whether _start_data_dist completes or raises, every PipelinedPostproc
\* refers, once start_sparse_data_dist is left, to the context it referred to
\* when the call was made.
C32_PostprocContextsRestored ==
    [][StartOnInitialized => u'.postproc_context = u.postproc_context]_vars

\* what holds: the wrappers are back on their contexts whenever the start
\* phase completed
C32_RestoredOnCompletion ==
    [][StartOnInitialized /\ Ok(u')
           => u'.postproc_context = u.postproc_context]_vars

\* The position of the single consumer (the training loop).
Blocked == dlt.callers[1].pc = "wait" /\ ~dlt.buffer_filled_event
Stopped == dlt.stopper = "done"

\* C33: with one consumer, once stop() has returned, a get_next_batch call
\* that waits for the buffer-filled signal gets it eventually, under fair
\* scheduling of the producer and the consumer.
C33_NoBlockedConsumer ==
    (SingleConsumer /\ Stopped /\ Blocked) ~> ~Blocked

\* A get_next_batch call that finds the buffer empty and returns None, and
\* the end of the data: the producer has returned, the buffer-filled signal
\* is set and the buffer is empty.
ReturnsNone ==
    /\ GetNextBatch
    /\ dlt.callers[1].pc = "read"
    /\ dlt.buffered = NoBatch
EndOfData ==
    /\ dlt.run.pc = "done"
    /\ dlt.buffer_filled_event
    /\ dlt.buffered = NoBatch
NoStop == dlt.stopper = "absent"

C35_ProducerTerminates ==
    /\ [][dlt.stop /\ dlt.run.pc # "next" => dlt'.run.pc # "next"]_vars
    /\ Stopped ~> (dlt.run.pc = "done")

\* stop() has returned and so has the producer, leaving in the buffer the
\* last batch it loaded, which no get_next_batch call has taken
C35_Witness ==
    /\ dlt.stopper = "done" /\ dlt.run.pc = "done"
    /\ dlt.dataloader_iter = 2 /\ dlt.buffered = YieldedBatch(1)
    /\ Len(dlt.callers[1].got) = 1


\* The path into the batch that a ph_key denotes: attributes separated by
\* ".", an item in "[...]", a numeric item as an integer.
PhKeyPath(ph_key) ==
    IF ph_key = Str(<< "a" >>) THEN << get_attr(Str(<< "a" >>)) >>
    ELSE IF ph_key = Str(<< "a", ".", "b" >>)
    THEN << get_attr(Str(<< "a" >>)), get_attr(Str(<< "b" >>)) >>
    ELSE IF ph_key = Str(<< "a", "[", "b", "]" >>)
    THEN << get_attr(Str(<< "a" >>)), get_item(Str(<< "b" >>)) >>
    ELSE IF ph_key = Str(<< "a", "[", "1", "0", "]" >>)
    THEN << get_attr(Str(<< "a" >>)), get_item(PyInt(10)) >>
    ELSE IF ph_key = Str(<< "a", "[", "1", "b", "]" >>)
    THEN << get_attr(Str(<< "a" >>)), get_item(Str(<< "1", "b" >>)) >>
    ELSE << get_attr(Str(<< "a" >>)), get_item(Str(<< "b" >>)), get_item(PyInt(0)) >>
\* The accesses of the traced program from the raw batch to the value of a
\* node: the placeholder's own path, then the accesses from innermost to
\* outermost.
RECURSIVE TracedPath(_)
TracedPath(n) ==
    IF n.op = "placeholder"
    THEN IF "ph_key" \in DOMAIN n THEN PhKeyPath(n.ph_key) ELSE << >>
    ELSE Append(TracedPath(n.of),
                IF n.op = "getattr" THEN get_attr(n.key) ELSE get_item(n.key))
\* evaluating the traced access path on a batch
Traced(n, batch) ==
    [batch EXCEPT !.via = @ \o [i \in 1 .. Len(TracedPath(n)) |-> TracedPath(n)[i].key]]
RecordedAccesses(steps) == SelectSeq(steps, LAMBDA step : step.kind # "noop")
Replayed == drv.pc = "replayed"
Unwound == AccessDepth(drv.node) > 0
RECURSIVE IsAtPhKey(_)
IsAtPhKey(n) ==
    IF n.op = "placeholder" THEN "ph_key" \in DOMAIN n ELSE IsAtPhKey(n.of)

\* C36: the steps recorded by the resolver are the accesses of the traced
\* path in order, and replaying them on the raw batch yields the value the
\* traced path has on that batch, also for a placeholder with a ph_key path
\* reached after unwound accesses.
C36_ReplayedInTracedOrder ==
    Replayed =>
        /\ RecordedAccesses(drv.steps) = TracedPath(drv.node)
        /\ drv.value = Traced(drv.node, RawBatch(drv.batch))

\* The replay is in traced order wherever the placeholder has no ph_key or
\* is reached directly.
C36_InOrderWithoutMixing ==
    Replayed /\ ~(Unwound /\ IsAtPhKey(drv.node)) =>
        /\ RecordedAccesses(drv.steps) = TracedPath(drv.node)
        /\ drv.value = Traced(drv.node, RawBatch(drv.batch))


\* The PipelinedPostprocs that a list of steps invokes, those in the nested
\* ArgInfos of a list or dict step included.
RECURSIVE StepPostprocs(_)
StepPostprocs(steps) ==
    UNION {IF steps[i].kind = "postproc" THEN {steps[i].fqn}
           ELSE IF steps[i].kind \in {"list", "dict"}
           THEN UNION {IF steps[i].value[j].op = "arginfo"
                       THEN StepPostprocs(steps[i].value[j].steps) ELSE {} :
                       j \in 1 .. Len(steps[i].value)}
           ELSE {} : i \in 1 .. Len(steps)}
CallArgsPostprocs(args) == UNION {StepPostprocs(args[i]) : i \in 1 .. Len(args)}
RECURSIVE InvokedThrough(_, _)
InvokedThrough(s, fqns) ==
    LET more == fqns \cup UNION {CallArgsPostprocs(s.postproc_args[f]) :
                                    f \in fqns \cap Keys(s.postproc_args)}
    IN IF more = fqns THEN fqns ELSE InvokedThrough(s, more)
\* invoked by the CallArgs of a pipelined sharded module, directly or through
\* another pipelined postproc
Invoked(s) ==
    InvokedThrough(s, UNION {CallArgsPostprocs(s.forward[m].args) :
                                m \in Range(s.pipelined_modules)})
Swapped(s) == {f \in Keys(s.model_postproc) : s.model_postproc[f] = "wrapped"}
Rewritten == drv.pc = "attached"

\* C37: every PipelinedPostproc that _rewrite_model swapped into the model
\* or returned in its list of pipelined postprocs is invoked by the CallArgs
\* of a pipelined sharded module, directly or through another pipelined
\* postproc.
C37_NoOrphanedPostproc ==
    Rewritten => Swapped(u) \cup Range(u.pipelined_postprocs) \subseteq Invoked(u)

\* The wrappers that pipelined modules invoke are all swapped in and listed.
C37_InvokedAreSwapped ==
    Rewritten => Invoked(u) \subseteq Swapped(u) \cap Range(u.pipelined_postprocs)


\* The context wait_sparse_data_dist works on and the module names its
\* pending fused-splits awaitables cover.
WaitedContext == _start_dist_context(u).cid
PendingNames(c) ==
    UNION {Range(c.fused_splits_awaitables[i].names) :
              i \in 1 .. Len(c.fused_splits_awaitables)}
NeverStarted(c) ==
    /\ c.fused_splits_awaitables = << >>
    /\ c.input_dist_splits_requests = EmptyDict
SameContexts(s, t) == s.contexts = t.contexts /\ s.heap = t.heap
\* A step of wait_sparse_data_dist on a util that has a start slot.  again
\* says on which utils a second call right after the first is claimed to
\* change nothing and raise nothing: 1 on all, 2 on those built with
\* assertions disabled.
WaitReturned(again) ==
    WaitSparseDataDist /\ Ok(_start_dist_context(u).s) =>
        LET c == Ctx(u, WaitedContext)
            second == wait_sparse_data_dist(Begin(u'))
        IN /\ Ok(u') =>
                /\ Keys(Ctx(u', WaitedContext).input_dist_tensors_requests)
                       = Keys(c.input_dist_tensors_requests) \cup PendingNames(c)
                /\ Ctx(u', WaitedContext).input_dist_splits_requests = EmptyDict
                /\ Ctx(u', WaitedContext).fused_splits_awaitables = << >>
                /\ u'.contexts = u.contexts
                /\ \A cid \in Reachable(u) \ {WaitedContext} :
                       Ctx(u', cid) = Ctx(u, cid)
           /\ Ok(u') /\ (again = 1 \/ ~u.WITH_CONTEXT_ASSERTIONS) =>
                /\ Ok(second)
                /\ SameContexts(second, u')
           /\ NeverStarted(c) /\ ~u.WITH_CONTEXT_ASSERTIONS =>
                /\ Ok(u')
                /\ SameContexts(u', u)

\* C38 as stated: a second call right after the first changes nothing and
\* raises nothing on every util.
C38_Original == [][WaitReturned(1)]_vars

\* C38: after wait_sparse_data_dist the start-slot context holds a tensors
\* request for every module name that had a pending fused-splits awaitable,
\* its splits requests and fused awaitables are empty and no other context
\* is touched; with assertions disabled, calling it again right away or on
\* a context on which communication was never started changes nothing and
\* raises nothing.
C38_WaitEffect == [][WaitReturned(2)]_vars

\* a wait has moved pending requests of a util without assertions, which a
\* second wait would leave alone
C38_Witness ==
    /\ Ok(u)
    /\ ~u.WITH_CONTEXT_ASSERTIONS
    /\ Len(u.pipelined_modules) > 0
    /\ Ok(_start_dist_context(u).s)
    /\ Keys(Ctx(u, WaitedContext).input_dist_tensors_requests)
           = Range(u.pipelined_modules)
    /\ Ctx(u, WaitedContext).fused_splits_awaitables = << >>
    /\ Ctx(u, WaitedContext).index \in u.populated


\* The context prefetch works on, where the window has one.
HasPrefetchSlot(s) == Len(s.contexts) >= 2
NotPopulated(s) ==
    \E m \in Range(s.pipelined_modules) :
        m \notin Keys(Ctx(s, s.contexts[2]).input_dist_tensors_requests)
\* A step of prefetch(batch).  windows says on which utils built without a
\* prefetch stream the assertion is claimed: 1 on all, 2 on those whose
\* window has the slot prefetch reads.
PrefetchFailed(windows) ==
    Prefetch =>
        /\ ~u.with_prefetch /\ (windows = 1 \/ HasPrefetchSlot(u)) =>
               /\ u'.err = "AssertionError"
               /\ SameContexts(u', u)
        /\ u.with_prefetch /\ HasPrefetchSlot(u) /\ NotPopulated(u) =>
               u'.err = "AssertionError"

\* C39 as stated: prefetch on any util built without a prefetch stream
\* fails with an assertion error.
C39_Original == [][PrefetchFailed(1)]_vars

\* C39: prefetch on a util built without a prefetch stream whose window has
\* the slot prefetch reads fails with an assertion error before any context
\* map is modified; prefetch on a context whose wait phase has not populated
\* input_dist_tensors_requests for a pipelined module fails by assertion.
C39_PrefetchRejected == [][PrefetchFailed(2)]_vars

\* prefetch has failed on an initialized util that has no prefetch stream
\* and asserts nothing about its contexts, the requests of the batch in
\* front still waiting for the model forward
C39_Witness ==
    /\ u.err = "AssertionError"
    /\ ~u.with_prefetch
    /\ ~u.WITH_CONTEXT_ASSERTIONS
    /\ u.initialized
    /\ HasPrefetchSlot(u)
    /\ u.fwdlog = {}
    /\ u.detached = 0
    /\ Len(u.pipelined_modules) > 0
    /\ \A m \in Range(u.pipelined_modules) :
           Keys(Ctx(u, u.forward[m].context).input_dist_tensors_requests)
               = Range(u.pipelined_modules)


\* C40: on the context of the semi-sync forwards the lists embedding_tensors,
\* embedding_features and detached_embedding_tensors have the same length,
\* one entry per completed invocation, and at every position the three
\* entries have the same length; the in-sync variant appends nothing.
C40_BookkeepingAligned ==
    LET c == Ctx(u, SemiSyncContext)
        served == {e \in u.fwdlog : e.ctx = c.index}
    IN /\ Len(c.embedding_tensors) = Len(c.embedding_features)
       /\ Len(c.embedding_tensors) = Len(c.detached_embedding_tensors)
       /\ \A i \in 1 .. Len(c.embedding_tensors) :
              /\ Len(c.embedding_tensors[i]) = Len(c.embedding_features[i])
              /\ Len(c.embedding_tensors[i]) = Len(c.detached_embedding_tensors[i])
              /\ \A j \in 1 .. Len(c.embedding_tensors[i]) :
                     c.detached_embedding_tensors[i][j]
                         = tensor_detach(c.embedding_tensors[i][j])
       /\ drv.in_sync => Len(c.embedding_tensors) = 0
       /\ ~drv.in_sync => Cardinality(served) <= Len(c.embedding_tensors)

\* two detaching invocations, one of a KeyedTensor with several features
\* and one of a dict with two jagged tensors
C40_Witness ==
    LET c == Ctx(u, SemiSyncContext)
    IN /\ ~drv.in_sync
       /\ Len(c.embedding_tensors) = 2
       /\ \E i \in 1 .. 2 : c.embedding_tensors[i] = << "t123" >>
       /\ \E i \in 1 .. 2 : c.embedding_tensors[i] = << "t1", "t2" >>
       /\ Len(c.embedding_features) = 2

====
